---- MODULE Spec2Model ----
(***************************************************************************)
(* A model of aqstat: the metadata merge (aqstat/metadata.py), the         *)
(* measurement table merge and calibration (aqstat/aqdata.py), the driver  *)
(* pipeline (aqstat/parse.py, aqstat/utils.py), the time delay correlation *)
(* (aqstat/stat.py) and the download tasks                                 *)
(* (aqstat/cli/commands/download.py).                                      *)
(*                                                                         *)
(* Python values are encoded as follows.                                   *)
(*   None          the empty tuple <<>>                                    *)
(*   an int n      the 1-tuple <<n>>                                       *)
(*   a str         a TLA+ string ("" is the empty, falsy string)           *)
(*   a location component (None, "", a float or NaN)                       *)
(*                 one of the strings "None", "", "nan" or a numeral       *)
(*   a dict        a function whose domain is the set of keys              *)
(***************************************************************************)
EXTENDS Integers, Sequences, FiniteSets, TLC

VARIABLES
    m_pc,       \* SpecMeta: "call" before AQMetaData.merge, "ret" after it
    m_self,     \* SpecMeta: the receiver (self) of AQMetaData.merge
    m_other,    \* SpecMeta: the argument (other)
    m_pre,      \* SpecMeta: the receiver as it was when merge was called
    m_inplace,  \* SpecMeta: the inplace argument of the call
    m_ret,      \* SpecMeta: the returned value: None or <<new AQMetaData>>
    d_pc,       \* SpecData: "call" before AQData.merge, "ret" after it
    d_self,     \* SpecData: self.data, the receiver's table
    d_other,    \* SpecData: other.data
    d_tol,      \* SpecData: tolerance, in seconds
    d_sorted,   \* SpecData: `data` after line 186 (appended and sorted)
    d_diff,     \* SpecData: the column data['diff'] of line 189
    d_out,      \* SpecData: `data` after line 191, the merged table
    s_data,     \* SpecSeq: self.data of one AQData through its life
    s_last,     \* SpecSeq: the operation that produced s_data
    s_tol,      \* SpecSeq: the tolerance of the latest merge (0 before any)
    o_metas,    \* SpecObj: the AQMetaData objects, by identity (position)
    o_objs,     \* SpecObj: the AQData objects: metadata (an identity), data
    o_last,     \* SpecObj: the latest call, its arguments and return value
    o_pre,      \* SpecObj: o_metas and o_objs as they were before that call
    p_pc,       \* SpecDriver: the position in parse_and_setup_sensors
    p_sensors,  \* SpecDriver: the list `sensors`
    p_i,        \* SpecDriver: i of merge_sensors_with_shared_name
    p_j,        \* SpecDriver: j of merge_sensors_with_shared_name
    p_last,     \* SpecDriver: the latest call made on a sensor of the list
    p_input,    \* SpecDriver: the list as parse_sensors_from_path returned it
    c_pc,       \* SpecParse: the position in parse_sensors_from_path
    c_opts,     \* SpecParse: chip_ids, names, exclude_names, only_metadata
    c_center,   \* SpecParse: geo_center
    c_sensors,  \* SpecParse: the list `sensors`
    c_chip_ids, \* SpecParse: chip_ids as set on line 385
    c_seen,     \* SpecParse: the numbers of .json and .csv files read
    c_last,     \* SpecParse: the latest step and what came of it
    c_pre,      \* SpecParse: `sensors` before that step
    c_ret,      \* SpecParse: the returned value: None or <<the list>>
    f_pc,       \* SpecFun: "call" before the function is applied, "ret" after
    f_name,     \* SpecFun: the function applied
    f_in,       \* SpecFun: its argument
    f_out,      \* SpecFun: its value
    t_pc,       \* SpecStat: the position in time_delay_correlation
    t_in,       \* SpecStat: the arguments a, b, dtmin, dtmax, freq, ...
    t_start,    \* SpecStat: starttime after line 54
    t_end,      \* SpecStat: endtime after line 55
    t_aa,       \* SpecStat: the index of aa
    t_bb,       \* SpecStat: the index of bb
    t_t,        \* SpecStat: t, the delay of the next iteration
    t_stat,     \* SpecStat: the index of stat, in row order
    t_n,        \* SpecStat: the iterations of the loop made so far
    w_pc,       \* SpecDownload: the position in download_sensorcommunity
    w_in,       \* SpecDownload: sensor_ids, the days of the range, the types
    w_urllist,  \* SpecDownload: urllist
    w_tasks     \* SpecDownload: the tasks of the nursery, one per url

metaVars == <<m_pc, m_self, m_other, m_pre, m_inplace, m_ret>>

dataVars == <<d_pc, d_self, d_other, d_tol, d_sorted, d_diff, d_out>>

seqVars == <<s_data, s_last, s_tol>>

objVars == <<o_metas, o_objs, o_last, o_pre>>

drvVars == <<p_pc, p_sensors, p_i, p_j, p_last, p_input>>

parseVars ==
    <<c_pc, c_opts, c_center, c_sensors, c_chip_ids, c_seen, c_last, c_pre,
      c_ret>>

funVars == <<f_pc, f_name, f_in, f_out>>

statVars == <<t_pc, t_in, t_start, t_end, t_aa, t_bb, t_t, t_stat, t_n>>

dlVars == <<w_pc, w_in, w_urllist, w_tasks>>

vars ==
    <<metaVars, dataVars, seqVars, objVars, drvVars, parseVars, funVars,
      statVars, dlVars>>

\* the variables of the other specifications, which an action leaves alone
varsNotMeta ==
    <<dataVars, seqVars, objVars, drvVars, parseVars, funVars,
      statVars, dlVars>>

varsNotData ==
    <<metaVars, seqVars, objVars, drvVars, parseVars, funVars,
      statVars, dlVars>>

varsNotSeq ==
    <<metaVars, dataVars, objVars, drvVars, parseVars, funVars,
      statVars, dlVars>>

varsNotObj ==
    <<metaVars, dataVars, seqVars, drvVars, parseVars, funVars,
      statVars, dlVars>>

varsNotDriver ==
    <<metaVars, dataVars, seqVars, objVars, parseVars, funVars,
      statVars, dlVars>>

varsNotParse ==
    <<metaVars, dataVars, seqVars, objVars, drvVars, funVars,
      statVars, dlVars>>

varsNotFun ==
    <<metaVars, dataVars, seqVars, objVars, drvVars, parseVars,
      statVars, dlVars>>

varsNotStat ==
    <<metaVars, dataVars, seqVars, objVars, drvVars, parseVars, funVars,
      dlVars>>

varsNotDownload ==
    <<metaVars, dataVars, seqVars, objVars, drvVars, parseVars, funVars,
      statVars>>

-----------------------------------------------------------------------------
(* Bounds of the model *)

\* chip ids are drawn from 0..MaxChipId (and None)
MaxChipId == 2
\* sensor ids are drawn from 0..MaxSensorId (and None)
MaxSensorId == 2
\* timestamps are whole seconds drawn from 0..MaxTime
MaxTime == 2
\* a table has at most MaxRows rows when merge is called
MaxRows == 2
\* the two tables of a merge have at most MaxUnion rows together
MaxUnion == 3
\* tolerances are drawn from 0..MaxTol seconds
MaxTol == 1
\* at most MaxObjs AQData objects are created
MaxObjs == 3
\* at most MaxCalls merges and assignments are made on them
MaxCalls == 2
\* parse_sensors_from_path returns at most MaxSensors sensors
MaxSensors == 3
\* parse_sensors_from_path finds at most MaxJsons .json files
MaxJsons == 2
\* and at most MaxCsvs .csv files
MaxCsvs == 2
\* the pm10 readings given to calibrate are 0..MaxPM10
MaxPM10 == 17
\* and the pm2_5 readings 0..MaxPM2_5
MaxPM2_5 == 2
\* the series given to time_delay_correlation have timestamps in 0..MaxStamp
MaxStamp == 2
\* dtmin and dtmax are drawn from -MaxDelay..MaxDelay
MaxDelay == 1
\* and freq from -1..MaxFreq
MaxFreq == 2
\* download_sensorcommunity is given at most MaxIds sensor ids
MaxIds == 2
\* and a date range of at most MaxDays days
MaxDays == 2
\* and the body of a response comes in at most MaxChunks chunks
MaxChunks == 1
\* the runs modelled start at most MaxTasks download tasks
MaxTasks == 6

-----------------------------------------------------------------------------
(* Python values *)

None == <<>>

\* bool(v) of an int-or-None value: None and 0 are falsy
Truthy(v) == v # None /\ v # <<0>>

\* `a or b` on int-or-None values
PyOr(a, b) == IF Truthy(a) THEN a ELSE b

\* `a or b` on str values: the empty string is falsy
PyOrStr(a, b) == IF a # "" THEN a ELSE b

\* float('nan') builds a new object on every evaluation and NaN is unequal
\* to itself, so `x in [None, float('nan')]` is true of None alone
InNoneOrNan(x) == x = "None"

-----------------------------------------------------------------------------
(* aqstat/metadata.py *)

GPSCoordinate(lat, lon, amsl, agl) ==
    [lat |-> lat, lon |-> lon, amsl |-> amsl, agl |-> agl]

ContactInfo(name, email, phone) ==
    [name |-> name, email |-> email, phone |-> phone]

SensorInfo(name, type, sensor_id) ==
    [name |-> name, type |-> type, sensor_id |-> sensor_id]

\* the default arguments of AQMetaData.__init__
DefaultLocation == GPSCoordinate("", "", "", "")
DefaultOwner == ContactInfo("", "", "")
EmptyDict == <<>>

\* AQMetaData.__init__: merged starts False
AQMetaData(name, chip_id, sensors, description, location, owner) ==
    [name |-> name, chip_id |-> chip_id, sensors |-> sensors,
     description |-> description, location |-> location, owner |-> owner,
     merged |-> FALSE]

\* merge, line 128: chip_id = self.chip_id or other.chip_id
MergedChipId(self, other) == PyOr(self.chip_id, other.chip_id)

\* (a plausible slip of line 129: any chip id of other is reported)
ChipIdGiven(self, other) == other.chip_id # None

\* merge, line 129: the condition under which the chip ids are reported
ChipIdConflict(self, other) ==
    other.chip_id # None /\ MergedChipId(self, other) # other.chip_id

\* merge, line 138: the sensor id of a key of both dicts
MergedSensorId(self, other, key) ==
    PyOr(self.sensors[key].sensor_id, other.sensors[key].sensor_id)

\* merge, line 139: the condition under which two sensor ids are reported
SensorIdConflict(self, other, key) ==
    /\ other.sensors[key].sensor_id # None
    /\ MergedSensorId(self, other, key) # other.sensors[key].sensor_id

\* merge, lines 135-150: the merged sensors dict
MergedSensors(self, other) ==
    [key \in DOMAIN self.sensors \cup DOMAIN other.sensors |->
        IF key \in DOMAIN other.sensors
        THEN IF key \in DOMAIN self.sensors
             THEN SensorInfo(key,
                      PyOrStr(self.sensors[key].type, other.sensors[key].type),
                      MergedSensorId(self, other, key))
             ELSE other.sensors[key]
        ELSE self.sensors[key]]

\* (a plausible slip of lines 133 and 143: the flag assigned the outcome of
\* the checks of this merge)
ConflictFlag(self, other) ==
    \/ ChipIdConflict(self, other)
    \/ \E key \in DOMAIN self.sensors \cap DOMAIN other.sensors :
          SensorIdConflict(self, other, key)

\* merge, lines 129-133 and 139-143: self.merged after the checks
MergedFlag(self, other) ==
    \/ self.merged
    \/ ChipIdConflict(self, other)
    \/ \E key \in DOMAIN self.sensors \cap DOMAIN other.sensors :
          SensorIdConflict(self, other, key)

\* merge, lines 152-157
MergedLocation(self, other) ==
    GPSCoordinate(
        IF ~InNoneOrNan(self.location.lat)
            THEN self.location.lat ELSE other.location.lat,
        IF ~InNoneOrNan(self.location.lon)
            THEN self.location.lon ELSE other.location.lon,
        IF ~InNoneOrNan(self.location.amsl)
            THEN self.location.amsl ELSE other.location.amsl,
        IF ~InNoneOrNan(self.location.agl)
            THEN self.location.agl ELSE other.location.agl)

\* merge, lines 159-163
MergedOwner(self, other) ==
    ContactInfo(PyOrStr(self.owner.name, other.owner.name),
                PyOrStr(self.owner.email, other.owner.email),
                PyOrStr(self.owner.phone, other.owner.phone))

\* merge, lines 167-172 and 176-183: the field values of the union
MergedFields(self, other) ==
    AQMetaData(PyOrStr(self.name, other.name),
               MergedChipId(self, other),
               MergedSensors(self, other),
               PyOrStr(self.description, other.description),
               MergedLocation(self, other),
               MergedOwner(self, other))

\* AQMetaData.merge(self, other, inplace): the receiver after the call and
\* the returned value (None, or a 1-tuple holding the new object)
AQMetaData_merge(self, other, inplace) ==
    IF inplace
    THEN [self |-> [MergedFields(self, other)
                        EXCEPT !.merged = MergedFlag(self, other)],
          ret  |-> None]
    ELSE [self |-> [self EXCEPT !.merged = MergedFlag(self, other)],
          ret  |-> <<MergedFields(self, other)>>]

\* the 1-tuple (x,) of a str, written to be unequal to every str and, like
\* every non-empty tuple, truthy
Tuple1(x) == "(" \o x \o ",)"

\* as_dict, lines 32-58: the dictionary representation
as_dict(self) ==
    [name |-> self.name,
     chip_id |-> self.chip_id,
     sensors |-> [key \in DOMAIN self.sensors |->
                     [name |-> self.sensors[key].name,
                      type |-> self.sensors[key].type,
                      sensor_id |-> self.sensors[key].sensor_id]],
     description |-> self.description,
     location |-> [lat |-> self.location.lat, lon |-> self.location.lon,
                   amsl |-> self.location.amsl, agl |-> self.location.agl],
     owner |-> [name |-> self.owner.name, email |-> self.owner.email,
                phone |-> self.owner.phone]]

\* from_json, lines 75-110, on the loaded dictionary: the name of a sensor
\* is its key, and line 88 ends in a comma, so description is a 1-tuple
from_json(metadata) ==
    AQMetaData(metadata.name,
               metadata.chip_id,
               [key \in DOMAIN metadata.sensors |->
                   SensorInfo(key, metadata.sensors[key].type,
                              metadata.sensors[key].sensor_id)],
               Tuple1(metadata.description),
               GPSCoordinate(metadata.location.lat, metadata.location.lon,
                             metadata.location.amsl, metadata.location.agl),
               ContactInfo(metadata.owner.name, metadata.owner.email,
                           metadata.owner.phone))

-----------------------------------------------------------------------------
(* aqstat/aqdata.py: the measurement table *)

(***************************************************************************)
(* A DataFrame is a sequence of rows; a row is a record holding its        *)
(* timestamp (index, in seconds) and one value per column.  A missing      *)
(* value (NaN, None) is <<>> and the number n is <<n>>.  A column that a   *)
(* frame lacks is a column of missing values: DataFrame.append fills the   *)
(* columns of the union with NaN.                                          *)
(***************************************************************************)
NaN == <<>>

\* AQData.data_columns
DataColumns == {"temperature", "humidity", "pressure", "pm10", "pm2_5"}

\* the columns calibrate adds
CalibColumns == {"pm10_per_pm2_5", "pm2_5_calib"}

Columns == DataColumns \cup CalibColumns

\* the timestamps of the rows, in seconds
Times == 0..MaxTime

\* a row at timestamp t holding the values vals (a function on some columns)
Row(t, vals) ==
    [c \in {"index"} \cup Columns |->
        IF c = "index" THEN t
        ELSE IF c \in DOMAIN vals THEN vals[c] ELSE NaN]

\* DataFrame(columns=data_columns, index=to_datetime([]))
EmptyFrame == <<>>

Abs(n) == IF n < 0 THEN 0 - n ELSE n

Min(S) == CHOOSE x \in S : \A y \in S : x <= y

\* whether the timestamps of a frame are non-decreasing in row order
IsSorted(data) ==
    \A i \in 1..(Len(data) - 1) : data[i].index <= data[i + 1].index

\* the orders in which the rows at the positions S of data can come out of a
\* sort by index: rows of equal index in any order
RECURSIVE SortedOrders(_, _)
SortedOrders(data, S) ==
    IF S = {} THEN {<<>>}
    ELSE LET m == Min({data[i].index : i \in S})
         IN  UNION {{<<data[i]>> \o rest :
                        rest \in SortedOrders(data, S \ {i})} :
                    i \in {j \in S : data[j].index = m}}

\* DataFrame.sort_index(): the default kind is quicksort, which is not
\* stable, so every order of the rows of equal index is a possible outcome
sort_index(data) == SortedOrders(data, 1..Len(data))

\* (a plausible slip of line 189: >= in place of >)
StartsGroupAtTolerance(delta, tolerance) == Abs(delta) >= tolerance

\* (a plausible slip of line 189: the tolerance taken a second too wide)
StartsGroupWide(delta, tolerance) == Abs(delta) > tolerance + 1

\* merge, line 189: whether a consecutive timestamp difference starts a group
StartsGroup(delta, tolerance) == Abs(delta) > tolerance

\* merge, line 189: data['diff'], the cumulated count of the differences
\* that exceed tolerance (the first difference is NaT and compares False)
DiffColumn(data, tolerance) ==
    [i \in 1..Len(data) |->
        Cardinality({j \in 2..i :
            StartsGroup(data[j].index - data[j - 1].index, tolerance)})]

\* (a plausible slip of line 191: aggregate('last'))
Last(data, G, col) ==
    LET have == {i \in G : data[i][col] # NaN}
    IN  IF have = {} THEN NaN
        ELSE data[CHOOSE i \in have : \A j \in have : j <= i][col]

\* (a plausible slip of line 191: the first row of the group, missing values
\* included, as groupby(...).nth(0) gives)
FirstRow(data, G, col) == data[Min(G)][col]

\* groupby(...).aggregate('first') on one column of the rows at positions G:
\* the first value that is not missing, in row order
First(data, G, col) ==
    LET have == {i \in G : data[i][col] # NaN}
    IN  IF have = {} THEN NaN ELSE data[Min(have)][col]

\* merge, lines 191-192: one row per value of data['diff'], in ascending
\* order of it, each column aggregated by 'first', then indexed by
\* data['index'] (a timestamp is never missing, so the first one of the
\* group is the first that is not missing)
GroupFirst(data, diff) ==
    LET keys == {diff[i] : i \in 1..Len(data)}
    IN  [g \in 1..Cardinality(keys) |->
            LET G == {i \in 1..Len(data) : diff[i] = g - 1}
            IN  [c \in {"index"} \cup Columns |->
                    IF c = "index" THEN data[Min(G)].index
                    ELSE First(data, G, c)]]

\* AQData.merge, lines 186-192: the tables the merge can produce (one per
\* outcome of the sort)
MergedTables(self_data, other_data, tolerance) ==
    {GroupFirst(d, DiffColumn(d, tolerance)) :
        d \in sort_index(self_data \o other_data)}

\* (a plausible slip of AQData.__init__, line 26: the table stored as given)
NoSort(data) == {data}

\* AQData.__init__, lines 26-30, without date limits: the tables the new
\* object can hold, the data argument sorted by its index
AQData_init_data(data) == sort_index(data)

RECURSIVE GCD(_, _)
GCD(a, b) == IF b = 0 THEN a ELSE GCD(b, a % b)

\* calibrate, line 49: pm10 / pm2_5 on non-negative readings, as the
\* fraction <<p, q>> in lowest terms; x / 0 is inf, written <<1, 0>>, and
\* 0 / 0 and every quotient of a missing value are NaN
Ratio(pm10, pm2_5) ==
    IF pm10 = NaN \/ pm2_5 = NaN THEN NaN
    ELSE LET a == pm10[1]
             b == pm2_5[1]
         IN  IF b = 0 THEN (IF a = 0 THEN NaN ELSE <<1, 0>>)
             ELSE <<a \div GCD(a, b), b \div GCD(a, b)>>

\* (a plausible slip of line 65: the ratio compared with >= 8)
AtOrOutOfRange(ratio) == ratio # NaN /\ ratio[1] >= 8 * ratio[2]

\* calibrate, line 65: the rows whose ratio is larger than 8 (NaN is not)
OutOfRange(ratio) == ratio # NaN /\ ratio[1] > 8 * ratio[2]

\* calibrate, lines 61-65: pm2_5 / (-0.509 * log(ratio) + 1.2203), kept as
\* the term <<pm2_5, p, q>> of the reading and the ratio p / q; a ratio of 0
\* has log -inf and gives 0, and rows out of range are set to None
Calib(pm2_5, ratio) ==
    IF ratio = NaN \/ OutOfRange(ratio) THEN NaN
    ELSE IF ratio[1] = 0 THEN <<0>>
    ELSE <<pm2_5[1], ratio[1], ratio[2]>>

\* (a plausible slip of line 65: the raw pm2_5 column masked where the
\* ratio is larger than 8, and not the derived one)
calibrate_masking_raw(data) ==
    [i \in 1..Len(data) |->
        LET ratio == Ratio(data[i].pm10, data[i].pm2_5)
        IN  [data[i] EXCEPT
                !.pm10_per_pm2_5 = ratio,
                !.pm2_5 = IF OutOfRange(ratio) THEN NaN ELSE @,
                !.pm2_5_calib =
                    IF ratio = NaN THEN NaN
                    ELSE IF ratio[1] = 0 THEN <<0>>
                    ELSE <<data[i].pm2_5[1], ratio[1], ratio[2]>>]]

\* AQData.calibrate, lines 49-65, on the table
calibrate(data) ==
    [i \in 1..Len(data) |->
        [data[i] EXCEPT
            !.pm10_per_pm2_5 = Ratio(data[i].pm10, data[i].pm2_5),
            !.pm2_5_calib =
                Calib(data[i].pm2_5, Ratio(data[i].pm10, data[i].pm2_5))]]

-----------------------------------------------------------------------------
(* SpecSeq: one AQData through construction, merges and calibrations *)

\* the rows files hold: a pair of pm readings at any timestamp
SeqRows == {Row(t, ("pm10" :> <<2>>) @@ ("pm2_5" :> <<1>>)) : t \in Times}

\* the data arguments of at most n rows, in any order
RawTables(n) == UNION {[1..k -> SeqRows] : k \in 0..n}

\* AQData(data=raw)
SeqInit ==
    /\ \E raw \in RawTables(MaxUnion) : s_data \in AQData_init_data(raw)
    /\ s_last = "init"
    /\ s_tol = 0

\* the variables of SpecSeq in the specifications that do not use them
SeqOff ==
    /\ s_data = EmptyFrame
    /\ s_last = "off"
    /\ s_tol = 0

\* self.merge(AQData(data=raw), tolerance, inplace=True), lines 186-198
SeqMergeInplace ==
    /\ \E raw \in RawTables(MaxRows - 1), tolerance \in 0..MaxTol :
          /\ \E other \in AQData_init_data(raw) :
                s_data' \in MergedTables(s_data, other, tolerance)
          /\ s_tol' = tolerance
    /\ s_last' = "merge"
    /\ UNCHANGED varsNotSeq

\* self.merge(AQData(data=raw), tolerance), lines 186-203: the table of the
\* returned object, which the constructor sorts once more
SeqMergeNew ==
    /\ \E raw \in RawTables(MaxRows - 1), tolerance \in 0..MaxTol :
          /\ \E other \in AQData_init_data(raw) :
                \E data \in MergedTables(s_data, other, tolerance) :
                    s_data' \in AQData_init_data(data)
          /\ s_tol' = tolerance
    /\ s_last' = "merge_new"
    /\ UNCHANGED varsNotSeq

\* self.calibrate()
SeqCalibrate ==
    /\ s_data' = calibrate(s_data)
    /\ s_last' = "calibrate"
    /\ UNCHANGED <<s_tol, varsNotSeq>>

SeqNext == SeqMergeInplace \/ SeqMergeNew \/ SeqCalibrate

-----------------------------------------------------------------------------
(* SpecData: the table part of AQData.merge applied to bounded inputs *)

\* the columns the rows of the input tables hold values in
ValueSets == {{"temperature"}, {"pm10"}, {"temperature", "pm10"}}

\* the tables with the timestamps ts (a tuple) whose row i holds the value
\* base + i in each column of a set of ValueSets: every value names its row
TablesAt(ts, base) ==
    {[i \in 1..Len(ts) |-> Row(ts[i], [c \in has[i] |-> <<base + i>>])] :
        has \in [1..Len(ts) -> ValueSets]}

\* the tables of at most n rows held by an AQData: sorted by the constructor
TablesUpTo(n, base) ==
    UNION {TablesAt(ts, base) :
        ts \in {t \in UNION {[1..k -> Times] : k \in 0..n} : IsSorted(
                    [i \in DOMAIN t |-> [index |-> t[i]]])}}

DataInit ==
    /\ d_pc = "call"
    /\ d_self \in TablesUpTo(MaxRows, 0)
    /\ d_other \in TablesUpTo(MaxRows, MaxRows)
    /\ Len(d_self) + Len(d_other) <= MaxUnion
    /\ d_tol \in 0..MaxTol
    /\ d_sorted = EmptyFrame
    /\ d_diff = <<>>
    /\ d_out = EmptyFrame

\* the variables of SpecData in the specifications that do not use them
DataOff ==
    /\ d_pc = "off"
    /\ d_self = EmptyFrame
    /\ d_other = EmptyFrame
    /\ d_tol = 0
    /\ d_sorted = EmptyFrame
    /\ d_diff = <<>>
    /\ d_out = EmptyFrame

\* AQData.merge, lines 186-192
DataMerge ==
    /\ d_pc = "call"
    /\ \E d \in sort_index(d_self \o d_other) :
          /\ d_sorted' = d
          /\ d_diff' = DiffColumn(d, d_tol)
          /\ d_out' = GroupFirst(d, DiffColumn(d, d_tol))
    /\ d_pc' = "ret"
    /\ UNCHANGED <<d_self, d_other, d_tol, varsNotData>>

DataNext == DataMerge

-----------------------------------------------------------------------------
(* SpecMeta: AQMetaData.merge applied to bounded inputs *)

ChipIds == {None} \cup {<<n>> : n \in 0..MaxChipId}
SensorIds == {None} \cup {<<n>> : n \in 0..MaxSensorId}
SensorTypes == {"", "SDS011", "BME280"}

\* sensors dicts: any descriptor under "pm10", with or without a DHT22
\* descriptor under "temperature"
SensorDicts ==
    LET pm == {SensorInfo("pm10", t, s) : t \in SensorTypes, s \in SensorIds}
        th == SensorInfo("temperature", "DHT22", <<1>>)
    IN  {EmptyDict, "temperature" :> th}
        \cup {"pm10" :> p : p \in pm}
        \cup {("pm10" :> p) @@ ("temperature" :> th) : p \in pm}

Locations ==
    {DefaultLocation,
     GPSCoordinate("None", "None", "None", "None"),
     GPSCoordinate("47", "19", "None", "nan"),
     GPSCoordinate("48", "None", "120", "3")}

Owners == {DefaultOwner, ContactInfo("o", "", "1"), ContactInfo("", "e", "2")}

\* the metadata objects merge is applied to: every identity (chip id and
\* sensors) without descriptive fields, and every combination of descriptive
\* fields without identity
MetaSet ==
    {AQMetaData("", c, s, "", DefaultLocation, DefaultOwner) :
        c \in ChipIds, s \in SensorDicts}
    \cup {AQMetaData(n, None, EmptyDict, d, l, o) :
        n \in {"", "a", "b"}, d \in {"", "d"}, l \in Locations, o \in Owners}

MetaInit ==
    /\ m_pc = "call"
    /\ \E flag \in BOOLEAN :
          m_self \in {[m EXCEPT !.merged = flag] : m \in MetaSet}
    /\ m_other \in MetaSet
    /\ m_pre = m_self
    /\ m_inplace = FALSE
    /\ m_ret = None

\* the variables of SpecMeta in the specifications that do not use them
MetaOff ==
    /\ m_pc = "off"
    /\ m_self = None
    /\ m_other = None
    /\ m_pre = None
    /\ m_inplace = FALSE
    /\ m_ret = None

MetaMerge(inplace) ==
    /\ m_pc = "call"
    /\ LET r == AQMetaData_merge(m_self, m_other, inplace)
       IN  /\ m_self' = r.self
           /\ m_ret' = r.ret
    /\ m_inplace' = inplace
    /\ m_pc' = "ret"
    /\ UNCHANGED <<m_other, m_pre, varsNotMeta>>

MetaMergeInplace == MetaMerge(TRUE)

MetaMergeNew == MetaMerge(FALSE)

MetaNext == MetaMergeInplace \/ MetaMergeNew

-----------------------------------------------------------------------------
(* SpecObj: AQData objects and the AQMetaData objects they refer to *)

(***************************************************************************)
(* Objects have identity: o_metas[k] is the state of the k-th AQMetaData   *)
(* object and an AQData holds the identity of its metadata.  o_metas[1] is *)
(* the object the default argument `metadata=AQMetaData()` of              *)
(* AQData.__init__ was evaluated to when the class was defined.            *)
(***************************************************************************)
DefaultMetadata == 1

\* the metadata arguments callers pass: a fresh, named object per device
ObjMetas ==
    {AQMetaData("a", <<c>>, EmptyDict, "", DefaultLocation, DefaultOwner) :
        c \in 1..MaxChipId}

\* the data arguments callers pass: no row or one row of pm readings
ObjTables ==
    {EmptyFrame}
    \cup {<<Row(t, ("pm10" :> <<2>>) @@ ("pm2_5" :> <<1>>))>> : t \in Times}

AQData(metadata, data) == [metadata |-> metadata, data |-> data]

Call(op, self, other, tolerance, inplace, ret) ==
    [op |-> op, self |-> self, other |-> other, tolerance |-> tolerance,
     inplace |-> inplace, ret |-> ret]

ObjInit ==
    /\ o_metas = <<AQMetaData("", None, EmptyDict, "",
                              DefaultLocation, DefaultOwner)>>
    /\ o_objs = <<>>
    /\ o_last = Call("none", 0, 0, 0, FALSE, 0)
    /\ o_pre = [metas |-> <<>>, objs |-> <<>>, calls |-> 0]

\* the variables of SpecObj in the specifications that do not use them
ObjOff ==
    /\ o_metas = <<>>
    /\ o_objs = <<>>
    /\ o_last = Call("off", 0, 0, 0, FALSE, 0)
    /\ o_pre = [metas |-> <<>>, objs |-> <<>>, calls |-> 0]

\* the snapshot taken before a call; calls counts the merges and assignments
Snapshot(counted) ==
    [metas |-> o_metas, objs |-> o_objs,
     calls |-> o_pre.calls + (IF counted THEN 1 ELSE 0)]

\* AQData(data=data): the metadata parameter keeps its default, the one
\* object made when the class was defined (aqdata.py:21 and 25)
ObjNewDefault ==
    /\ Len(o_objs) < MaxObjs - 1
    /\ \E raw \in ObjTables : \E data \in AQData_init_data(raw) :
          o_objs' = Append(o_objs, AQData(DefaultMetadata, data))
    /\ o_last' = Call("init", Len(o_objs) + 1, 0, 0, FALSE, 0)
    /\ o_pre' = Snapshot(FALSE)
    /\ UNCHANGED <<o_metas, varsNotObj>>

\* AQData(metadata=AQMetaData(...), data=data), as parse.py:353 and
\* aqdata.py:156: the caller makes a new metadata object for the record
ObjNew ==
    /\ Len(o_objs) < MaxObjs - 1
    /\ \E md \in ObjMetas, raw \in ObjTables :
          \E data \in AQData_init_data(raw) :
              /\ o_metas' = Append(o_metas, md)
              /\ o_objs' = Append(o_objs, AQData(Len(o_metas) + 1, data))
    /\ o_last' = Call("init", Len(o_objs) + 1, 0, 0, FALSE, 0)
    /\ o_pre' = Snapshot(FALSE)
    /\ UNCHANGED varsNotObj

\* AQData.merge(self, other, tolerance, inplace=True), lines 186-198, on the
\* objects i and j
ObjMergeInplace(i, j, tolerance) ==
    /\ o_pre.calls < MaxCalls
    /\ LET self == o_objs[i]
           other == o_objs[j]
           r == AQMetaData_merge(o_metas[self.metadata],
                                 o_metas[other.metadata], TRUE)
       IN  /\ o_metas' = [o_metas EXCEPT ![self.metadata] = r.self]
           /\ \E data \in MergedTables(self.data, other.data, tolerance) :
                 o_objs' = [o_objs EXCEPT ![i].data = data]
    /\ o_last' = Call("merge", i, j, tolerance, TRUE, 0)
    /\ o_pre' = Snapshot(TRUE)
    /\ UNCHANGED varsNotObj

\* AQData.merge(self, other, tolerance, inplace=False), lines 186-192 and
\* 200-203: the metadata merge flags the receiver and returns a new object,
\* which the new AQData takes
ObjMergeNew(i, j, tolerance) ==
    /\ o_pre.calls < MaxCalls
    /\ Len(o_objs) < MaxObjs
    /\ LET self == o_objs[i]
           other == o_objs[j]
           r == AQMetaData_merge(o_metas[self.metadata],
                                 o_metas[other.metadata], FALSE)
       IN  /\ o_metas' = Append([o_metas EXCEPT ![self.metadata] = r.self],
                                r.ret[1])
           /\ \E merged \in MergedTables(self.data, other.data, tolerance) :
                 \E data \in AQData_init_data(merged) :
                     o_objs' = Append(o_objs,
                                      AQData(Len(o_metas) + 1, data))
    /\ o_last' = Call("merge", i, j, tolerance, FALSE, Len(o_objs) + 1)
    /\ o_pre' = Snapshot(TRUE)
    /\ UNCHANGED varsNotObj

\* the chip_id setter, lines 71-73
ObjSetChipId(i, value) ==
    /\ o_pre.calls < MaxCalls
    /\ o_metas' = [o_metas EXCEPT ![o_objs[i].metadata].chip_id = value]
    /\ o_last' = Call("chip_id", i, 0, 0, FALSE, 0)
    /\ o_pre' = Snapshot(TRUE)
    /\ UNCHANGED <<o_objs, varsNotObj>>

\* the name setter, lines 209-211
ObjSetName(i, value) ==
    /\ o_pre.calls < MaxCalls
    /\ o_metas' = [o_metas EXCEPT ![o_objs[i].metadata].name = value]
    /\ o_last' = Call("name", i, 0, 0, FALSE, 0)
    /\ o_pre' = Snapshot(TRUE)
    /\ UNCHANGED <<o_objs, varsNotObj>>

ObjMergeInplaceAny ==
    \E i, j \in 1..Len(o_objs), tolerance \in 0..MaxTol :
        i # j /\ ObjMergeInplace(i, j, tolerance)

ObjMergeNewAny ==
    \E i, j \in 1..Len(o_objs), tolerance \in 0..MaxTol :
        i # j /\ ObjMergeNew(i, j, tolerance)

ObjSetChipIdAny ==
    \E i \in 1..Len(o_objs), value \in ChipIds : ObjSetChipId(i, value)

ObjSetNameAny ==
    \E i \in 1..Len(o_objs), value \in {"", "a", "b"} : ObjSetName(i, value)

ObjNext ==
    \/ ObjNewDefault
    \/ ObjNew
    \/ ObjMergeInplaceAny
    \/ ObjMergeNewAny
    \/ ObjSetChipIdAny
    \/ ObjSetNameAny

-----------------------------------------------------------------------------
(* SpecDriver: parse_and_setup_sensors, parse.py lines 56-73 *)

\* AQData.merge, line 166: tolerance=Timedelta(seconds=5)
DefaultTolerance == 5

\* the names the metadata files give: none, or one of two
DrvNames == {"", "a", "b"}

\* the timestamps of the rows: two within the default tolerance of each
\* other or not
DrvTimes == {0, DefaultTolerance + 1}

\* the k-th sensor of the list parse_sensors_from_path returns (lines
\* 351-353 and 408-411): its own metadata object with its own chip id, a
\* table that is not empty, and no call of calibrate made on it yet
Sensor(k, name, t) ==
    [metadata |-> AQMetaData(name, <<k>>, EmptyDict, "",
                             DefaultLocation, DefaultOwner),
     data |-> <<Row(t, ("pm10" :> <<2>>) @@ ("pm2_5" :> <<1>>))>>,
     calibrated |-> FALSE]

SensorLists ==
    UNION {{[k \in 1..n |-> Sensor(k, names[k], ts[k])] :
               names \in [1..n -> DrvNames], ts \in [1..n -> DrvTimes]} :
           n \in 0..MaxSensors}

\* a call on a sensor, and whether calibrate had been called before on the
\* receiver and on the argument
SensorCall(op, self_calibrated, other_calibrated) ==
    [op |-> op, self_calibrated |-> self_calibrated,
     other_calibrated |-> other_calibrated]

\* del sensors[j], j counted from 0
Del(sensors, j) ==
    [k \in 1..(Len(sensors) - 1) |->
        IF k <= j THEN sensors[k] ELSE sensors[k + 1]]

DrvInit ==
    /\ p_pc = "parse"
    /\ p_sensors = <<>>
    /\ p_i = 0
    /\ p_j = 0
    /\ p_last = SensorCall("none", FALSE, FALSE)
    /\ p_input = <<>>

\* the variables of SpecDriver in the specifications that do not use them
DrvOff ==
    /\ p_pc = "off"
    /\ p_sensors = <<>>
    /\ p_i = 0
    /\ p_j = 0
    /\ p_last = SensorCall("off", FALSE, FALSE)
    /\ p_input = <<>>

\* lines 57-66: sensors = parse_sensors_from_path(...); p_i then counts the
\* sensors the loop of line 68 has visited
DrvParse ==
    /\ p_pc = "parse"
    /\ p_sensors' \in SensorLists
    /\ p_input' = p_sensors'
    /\ p_pc' = "calibrate"
    /\ p_i' = 0
    /\ UNCHANGED <<p_j, p_last, varsNotDriver>>

\* lines 68-69: sensor.calibrate() on the next sensor
DrvCalibrate ==
    /\ p_pc = "calibrate"
    /\ p_i < Len(p_sensors)
    /\ p_sensors' = [p_sensors EXCEPT
                        ![p_i + 1].data = calibrate(@),
                        ![p_i + 1].calibrated = TRUE]
    /\ p_last' = SensorCall("calibrate", p_sensors[p_i + 1].calibrated, FALSE)
    /\ p_i' = p_i + 1
    /\ UNCHANGED <<p_pc, p_j, p_input, varsNotDriver>>

\* line 71 and utils.py lines 71-74: the loop of line 68 is over and
\* merge_sensors_with_shared_name is entered
DrvEnterMerge ==
    /\ p_pc = "calibrate"
    /\ p_i = Len(p_sensors)
    /\ p_pc' = IF Len(p_sensors) < 2 THEN "done" ELSE "outer"
    /\ p_i' = 0
    /\ UNCHANGED <<p_sensors, p_j, p_last, p_input, varsNotDriver>>

\* utils.py lines 75-76: while i < len(sensors) - 1: j = i + 1
DrvOuter ==
    /\ p_pc = "outer"
    /\ p_i < Len(p_sensors) - 1
    /\ p_j' = p_i + 1
    /\ p_pc' = "inner"
    /\ UNCHANGED <<p_sensors, p_i, p_last, p_input, varsNotDriver>>

\* (a plausible slip of line 78: the names compared, empty or not)
EqualName(sensors, i, j) ==
    sensors[i + 1].metadata.name = sensors[j + 1].metadata.name

\* utils.py line 78: sensors[i].name and sensors[i].name == sensors[j].name
SharedName(sensors, i, j) ==
    /\ sensors[i + 1].metadata.name # ""
    /\ sensors[i + 1].metadata.name = sensors[j + 1].metadata.name

\* utils.py lines 77-80: sensors[i].merge(sensors[j], inplace=True) and
\* del sensors[j]
DrvMergePair ==
    /\ p_pc = "inner"
    /\ p_j < Len(p_sensors)
    /\ SharedName(p_sensors, p_i, p_j)
    /\ LET self == p_sensors[p_i + 1]
           other == p_sensors[p_j + 1]
           r == AQMetaData_merge(self.metadata, other.metadata, TRUE)
       IN  /\ \E data \in MergedTables(self.data, other.data,
                                       DefaultTolerance) :
                 p_sensors' =
                     Del([p_sensors EXCEPT ![p_i + 1].metadata = r.self,
                                           ![p_i + 1].data = data], p_j)
           /\ p_last' = SensorCall("merge", self.calibrated,
                                   other.calibrated)
    /\ UNCHANGED <<p_pc, p_i, p_j, p_input, varsNotDriver>>

\* utils.py lines 77-78 and 81-82: the names differ, j += 1
DrvSkipPair ==
    /\ p_pc = "inner"
    /\ p_j < Len(p_sensors)
    /\ ~SharedName(p_sensors, p_i, p_j)
    /\ p_j' = p_j + 1
    /\ UNCHANGED <<p_pc, p_sensors, p_i, p_last, p_input, varsNotDriver>>

\* utils.py lines 77 and 83: the inner loop is over, i += 1
DrvInnerEnd ==
    /\ p_pc = "inner"
    /\ p_j >= Len(p_sensors)
    /\ p_i' = p_i + 1
    /\ p_pc' = "outer"
    /\ UNCHANGED <<p_sensors, p_j, p_last, p_input, varsNotDriver>>

\* utils.py lines 75 and 85, parse.py line 73: return sensors
DrvReturn ==
    /\ p_pc = "outer"
    /\ p_i >= Len(p_sensors) - 1
    /\ p_pc' = "done"
    /\ UNCHANGED <<p_sensors, p_i, p_j, p_last, p_input, varsNotDriver>>

DrvNext ==
    \/ DrvParse
    \/ DrvCalibrate
    \/ DrvEnterMerge
    \/ DrvOuter
    \/ DrvMergePair
    \/ DrvSkipPair
    \/ DrvInnerEnd
    \/ DrvReturn

-----------------------------------------------------------------------------
(* SpecParse: parse_sensors_from_path, parse.py lines 280-411 *)

\* AQData.sensor_ids, aqdata.py lines 213-217: the ids of all the sensors
sensor_ids(metadata) ==
    {metadata.sensors[key].sensor_id : key \in DOMAIN metadata.sensors}

\* (a plausible slip of utils.py lines 19-21: the chip id not looked at)
find_sensor_with_sensor_id(sensors, chip_id, sensor_id) ==
    LET found == {i \in 1..Len(sensors) :
                     /\ sensor_id # None
                     /\ sensor_id \in sensor_ids(sensors[i].metadata)}
    IN  IF found = {} THEN 0 ELSE Min(found)

\* find_sensor_with_id, utils.py lines 18-26: the position (from 1) of the
\* first sensor with the chip id or with the sensor id, 0 for None
find_sensor_with_id(sensors, chip_id, sensor_id) ==
    LET found == {i \in 1..Len(sensors) :
                     \/ /\ chip_id # None
                        /\ sensors[i].metadata.chip_id = chip_id
                     \/ /\ sensor_id # None
                        /\ sensor_id \in sensor_ids(sensors[i].metadata)}
    IN  IF found = {} THEN 0 ELSE Min(found)

\* the contents of the .json files: two names, one a part of the other; a
\* chip id or none; a device of two sensors at latitude 47 or a device of
\* one sensor at latitude 48
JsonNames == {"a", "ab"}

JsonSensors(n) ==
    IF n = 1
    THEN ("pm10" :> [name |-> "pm10", type |-> "SDS011", sensor_id |-> <<1>>])
         @@ ("temperature" :> [name |-> "temperature", type |-> "DHT22",
                               sensor_id |-> <<2>>])
    ELSE ("pm10" :> [name |-> "pm10", type |-> "SDS011", sensor_id |-> <<3>>])

JsonFiles ==
    {[name |-> n, chip_id |-> c, sensors |-> JsonSensors(k),
      description |-> "",
      location |-> [lat |-> IF k = 1 THEN "47" ELSE "48", lon |-> "19",
                    amsl |-> "100", agl |-> "3"],
      owner |-> [name |-> "", email |-> "", phone |-> ""]] :
        n \in JsonNames, c \in {None} \cup {<<i>> : i \in 1..MaxChipId},
        k \in 1..2}

\* `name in metadata.name` of lines 338 and 345: the parts of the names
NameIn(name, metadata_name) ==
    \/ name = metadata_name
    \/ name = ""
    \/ name \in {"a", "b"} /\ metadata_name = "ab"

\* the names of the .csv files: what the two filename parsers read in them
\* (scheme "A" is data-esp8266-<chip_id>-<date>, scheme "B" is
\* <date>_<sensor_type>_sensor_<sensor_id>, "" is neither), the date as
\* compared with date_start and date_end ("" when there is none), and the
\* rows the file holds
CsvFiles ==
    {[scheme |-> "A", chip_id |-> <<1>>, sensor_id |-> None,
      sensor_type |-> "", date |-> "in"],
     [scheme |-> "", chip_id |-> None, sensor_id |-> None,
      sensor_type |-> "", date |-> ""]}
    \cup {[scheme |-> "B", chip_id |-> None, sensor_id |-> <<s>>,
           sensor_type |-> "sds011", date |-> d] :
             s \in {1, 2, 4}, d \in {"in", "out"}}

\* parse_metadata_from_filename, parse.py lines 204-210, with the two
\* parsers of lines 141-148 and 168-179: datetime(year=tokens[3], ...) of
\* line 144 is given str values and raises TypeError
parse_metadata_from_filename(filename) ==
    IF filename.scheme = "A"
    THEN [raised |-> "TypeError", chip_id |-> filename.chip_id,
          sensor_id |-> None, sensor_type |-> "", date |-> ""]
    ELSE IF filename.scheme = "B"
    THEN [raised |-> "", chip_id |-> None,
          sensor_id |-> filename.sensor_id,
          sensor_type |-> filename.sensor_type, date |-> filename.date]
    ELSE [raised |-> "", chip_id |-> None, sensor_id |-> None,
          sensor_type |-> "", date |-> ""]

\* the rows read from a file: pm readings at a timestamp
CsvRows == <<Row(0, ("pm10" :> <<2>>) @@ ("pm2_5" :> <<1>>))>>

\* AQData.from_csv, aqdata.py lines 115-156: the exception raised, or ""
\* and the new record; line 129 calls parse_sensorcommunity_csv(filename)
\* without the sensor_type argument that parse.py line 240 requires
from_csv(filename) ==
    LET parsed == parse_metadata_from_filename(filename)
        none == AQMetaData("", None, EmptyDict, "",
                           DefaultLocation, DefaultOwner)
    IN  IF parsed.raised # ""
        THEN [raised |-> parsed.raised, metadata |-> none,
              data |-> EmptyFrame]
        ELSE IF parsed.chip_id = None /\ parsed.sensor_id = None
        THEN [raised |-> "ValueError", metadata |-> none,
              data |-> EmptyFrame]
        ELSE IF Truthy(parsed.chip_id)
        THEN [raised |-> "",
              metadata |-> [none EXCEPT !.chip_id = parsed.chip_id],
              data |-> CsvRows]
        ELSE [raised |-> "TypeError", metadata |-> none,
              data |-> EmptyFrame]

\* the filters given to parse_sensors_from_path
Options ==
    {[chip_ids |-> c, names |-> n, exclude_names |-> x, only_metadata |-> o] :
        c \in {{}, {<<1>>}}, n \in {{}, {"b"}}, x \in {{}, {"b"}},
        o \in BOOLEAN}

\* geo_center: None, a latitude and a longitude, or the name of a sensor
Centers ==
    {[kind |-> "None", name |-> "", lat |-> "", lon |-> ""],
     [kind |-> "latlon", name |-> "", lat |-> "47", lon |-> "19"],
     [kind |-> "name", name |-> "a", lat |-> "", lon |-> ""]}

\* latlon_distance(...) <= geo_radius, lines 366-374, for a radius under
\* the distance of one degree of latitude
WithinRadius(center, location) ==
    center.lat = location.lat /\ center.lon = location.lon

\* a step of the function on a file: what was read, what came of it and
\* the sensor it went to (0 for none)
FileStep(kind, file, outcome, target) ==
    [kind |-> kind, file |-> file, outcome |-> outcome, target |-> target]

ParseInit ==
    /\ c_pc = "json"
    /\ c_opts \in Options
    /\ c_center \in Centers
    /\ c_sensors = <<>>
    /\ c_chip_ids = {}
    /\ c_seen = [json |-> 0, csv |-> 0]
    /\ c_last = FileStep("none", None, "", 0)
    /\ c_pre = <<>>
    /\ c_ret = None

\* the variables of SpecParse in the specifications that do not use them
ParseOff ==
    /\ c_pc = "off"
    /\ c_opts = None
    /\ c_center = None
    /\ c_sensors = <<>>
    /\ c_chip_ids = {}
    /\ c_seen = [json |-> 0, csv |-> 0]
    /\ c_last = FileStep("off", None, "", 0)
    /\ c_pre = <<>>
    /\ c_ret = None

\* lines 338-339
Excluded(opts, metadata) ==
    /\ opts.exclude_names # {}
    /\ \E name \in opts.exclude_names : NameIn(name, metadata.name)

\* lines 341-343: geo_center after the file
CenterAfter(center, metadata) ==
    IF center.kind = "name" /\ center.name = metadata.name
    THEN [kind |-> "latlon", name |-> "", lat |-> metadata.location.lat,
          lon |-> metadata.location.lon]
    ELSE center

\* lines 345-349
Unwanted(opts, metadata) ==
    \/ /\ opts.names # {}
       /\ ~\E name \in opts.names : NameIn(name, metadata.name)
    \/ /\ opts.chip_ids # {}
       /\ metadata.chip_id \notin opts.chip_ids

\* lines 333-355: the next .json file of the first loop
ParseJson ==
    /\ c_pc = "json"
    /\ c_seen.json < MaxJsons
    /\ \E file \in JsonFiles :
          LET metadata == from_json(file)
              n == c_seen.json + 1
              i == find_sensor_with_id(c_sensors, metadata.chip_id, None)
          IN  IF Excluded(c_opts, metadata)
              THEN /\ c_last' = FileStep("json", file, "skipped", 0)
                   /\ UNCHANGED <<c_sensors, c_center>>
              ELSE /\ c_center' = CenterAfter(c_center, metadata)
                   /\ IF Unwanted(c_opts, metadata)
                      THEN /\ c_last' = FileStep("json", file, "skipped", 0)
                           /\ UNCHANGED c_sensors
                      ELSE IF i = 0
                      THEN /\ c_sensors' =
                                 Append(c_sensors,
                                        [metadata |-> metadata,
                                         data |-> EmptyFrame, first |-> n])
                           /\ c_last' = FileStep("json", file, "appended",
                                                 Len(c_sensors) + 1)
                      ELSE /\ c_sensors' =
                                 [c_sensors EXCEPT ![i].metadata =
                                     AQMetaData_merge(@, metadata, TRUE).self]
                           /\ c_last' = FileStep("json", file, "merged", i)
    /\ c_seen' = [c_seen EXCEPT !.json = @ + 1]
    /\ c_pre' = c_sensors
    /\ UNCHANGED <<c_pc, c_opts, c_chip_ids, c_ret>>
    /\ UNCHANGED varsNotParse

\* (a plausible slip of lines 358-376: the filter left out)
Unfiltered(center, sensors) == sensors

\* lines 358-376: the sensors the geographical filter keeps
GeoFiltered(center, sensors) ==
    IF center.kind = "latlon"
    THEN SelectSeq(sensors,
                   LAMBDA s : WithinRadius(center, s.metadata.location))
    ELSE sensors

\* lines 358-385: the first loop is over; the geographical filter, the
\* early return and the list of chip ids
ParseGeo ==
    /\ c_pc = "json"
    /\ LET sensors == GeoFiltered(c_center, c_sensors)
       IN  /\ c_sensors' = sensors
           /\ IF sensors = <<>> \/ c_opts.only_metadata
              THEN /\ c_pc' = "done"
                   /\ c_ret' = <<sensors>>
                   /\ UNCHANGED c_chip_ids
              ELSE /\ c_pc' = "csv"
                   /\ c_chip_ids' =
                         {sensors[i].metadata.chip_id : i \in 1..Len(sensors)}
                   /\ UNCHANGED c_ret
    /\ c_last' = FileStep("geo", None, "", 0)
    /\ c_pre' = c_sensors
    /\ UNCHANGED <<c_opts, c_center, c_seen>>
    /\ UNCHANGED varsNotParse

\* lines 390-395: the chip id a file is taken to belong to
ResolvedChipId(sensors, parsed) ==
    LET i == find_sensor_with_id(sensors, None, parsed.sensor_id)
    IN  IF parsed.chip_id = None /\ parsed.sensor_id # None /\ i # 0
        THEN sensors[i].metadata.chip_id
        ELSE parsed.chip_id

\* lines 399-402, for a date outside the limits given
OutOfDates(date) == date = "out"

\* lines 388-409: the next .csv file of the second loop
ParseCsv ==
    /\ c_pc = "csv"
    /\ c_seen.csv < MaxCsvs
    /\ \E file \in CsvFiles :
          LET parsed == parse_metadata_from_filename(file)
              chip_id == ResolvedChipId(c_sensors, parsed)
              newsensor == from_csv(file)
              i == find_sensor_with_id(c_sensors, chip_id, parsed.sensor_id)
          IN  IF parsed.raised # ""
              THEN /\ c_pc' = "raised"
                   /\ c_last' = FileStep("csv", file, parsed.raised, 0)
                   /\ UNCHANGED c_sensors
              ELSE IF chip_id \notin c_chip_ids \/ OutOfDates(parsed.date)
              THEN /\ c_last' = FileStep("csv", file, "skipped", 0)
                   /\ UNCHANGED <<c_pc, c_sensors>>
              ELSE IF newsensor.raised # ""
              THEN /\ c_pc' = "raised"
                   /\ c_last' = FileStep("csv", file, newsensor.raised, 0)
                   /\ UNCHANGED c_sensors
              ELSE IF i = 0
              THEN /\ c_last' = FileStep("csv", file, "dropped", 0)
                   /\ UNCHANGED <<c_pc, c_sensors>>
              ELSE /\ \E data \in MergedTables(c_sensors[i].data,
                                               newsensor.data,
                                               DefaultTolerance) :
                         c_sensors' =
                             [c_sensors EXCEPT
                                 ![i].metadata =
                                     AQMetaData_merge(@, newsensor.metadata,
                                                      TRUE).self,
                                 ![i].data = data]
                   /\ c_last' = FileStep("csv", file, "merged", i)
                   /\ UNCHANGED c_pc
    /\ c_seen' = [c_seen EXCEPT !.csv = @ + 1]
    /\ c_pre' = c_sensors
    /\ UNCHANGED <<c_opts, c_center, c_chip_ids, c_ret>>
    /\ UNCHANGED varsNotParse

\* (a plausible slip of line 411: the list returned as it is)
AllSensors(sensors) == sensors

\* line 411: return [s for s in sensors if not s.data.empty]
NotEmpty(sensors) == SelectSeq(sensors, LAMBDA s : s.data # EmptyFrame)

\* line 411: the second loop is over
ParseReturn ==
    /\ c_pc = "csv"
    /\ c_pc' = "done"
    /\ c_ret' = <<NotEmpty(c_sensors)>>
    /\ c_last' = FileStep("return", None, "", 0)
    /\ c_pre' = c_sensors
    /\ UNCHANGED <<c_opts, c_center, c_sensors, c_chip_ids, c_seen>>
    /\ UNCHANGED varsNotParse

ParseNext == ParseJson \/ ParseGeo \/ ParseCsv \/ ParseReturn

-----------------------------------------------------------------------------
(* SpecFun: functions applied to bounded arguments *)

\* json.load of the text json.dumps writes of a dictionary of as_dict: a
\* str, an int, None and NaN come back as they were, a tuple comes back as
\* a list
json_loads_dumps(dict) ==
    [dict EXCEPT !.description =
        IF \E x \in {"", "d"} : @ = Tuple1(x)
        THEN "[" \o (CHOOSE x \in {"", "d"} : @ = Tuple1(x)) \o "]"
        ELSE @]

\* the metadata objects serialized: those of MetaSet, and those loaded
\* from the files written of them
JsonInputs ==
    MetaSet \cup {from_json(json_loads_dumps(as_dict(m))) : m \in MetaSet}

\* the tables given to calibrate: one or two rows with a pm10 and a pm2_5
\* reading each, a whole number or missing
CalibInputs ==
    LET readings(n) == {NaN} \cup {<<v>> : v \in 0..n}
        pairs == readings(MaxPM10) \X readings(MaxPM2_5)
    IN  UNION {{[i \in 1..k |->
                    Row(i - 1, ("pm10" :> r[i][1]) @@ ("pm2_5" :> r[i][2]))] :
                r \in [1..k -> pairs]} : k \in 1..2}

FunInit ==
    /\ f_pc = "call"
    /\ \/ f_name = "json" /\ f_in \in JsonInputs
       \/ f_name = "calibrate" /\ f_in \in CalibInputs
       \/ f_name = "filename" /\ f_in \in CsvFiles
    /\ f_out = None

\* the variables of SpecFun in the specifications that do not use them
FunOff ==
    /\ f_pc = "off"
    /\ f_name = ""
    /\ f_in = None
    /\ f_out = None

\* json.dumps(metadata.as_dict()) written to a file, and
\* AQMetaData.from_json of that file
FunJson ==
    /\ f_pc = "call"
    /\ f_name = "json"
    /\ f_out' = from_json(json_loads_dumps(as_dict(f_in)))
    /\ f_pc' = "ret"
    /\ UNCHANGED <<f_name, f_in, varsNotFun>>

\* AQData(data=f_in).calibrate(), and the table read afterwards
FunCalibrate ==
    /\ f_pc = "call"
    /\ f_name = "calibrate"
    /\ f_out' = calibrate(f_in)
    /\ f_pc' = "ret"
    /\ UNCHANGED <<f_name, f_in, varsNotFun>>

\* one more self.calibrate() on the object calibrated before
FunCalibrateAgain ==
    /\ f_pc \in {"ret", "again"}
    /\ f_name = "calibrate"
    /\ f_out' = calibrate(f_out)
    /\ f_pc' = "again"
    /\ UNCHANGED <<f_name, f_in, varsNotFun>>

\* parse_metadata_from_filename(filename): "ret" with its value, "raise"
\* with the exception
FunFilename ==
    /\ f_pc = "call"
    /\ f_name = "filename"
    /\ f_out' = parse_metadata_from_filename(f_in)
    /\ f_pc' = IF parse_metadata_from_filename(f_in).raised = ""
              THEN "ret" ELSE "raise"
    /\ UNCHANGED <<f_name, f_in, varsNotFun>>

FunNext == FunJson \/ FunCalibrate \/ FunCalibrateAgain \/ FunFilename

-----------------------------------------------------------------------------
(* SpecStat: one call of time_delay_correlation (aqstat/stat.py).  Times   *)
(* and delays are whole numbers of one unit; of a series only its index,   *)
(* a set of timestamps, is kept.                                           *)

\* the largest Timedelta, in the unit of the model: a Timedelta beyond
\* -TimedeltaMax..TimedeltaMax raises OverflowError
TimedeltaMax == MaxDelay + 3

Max(S) == CHOOSE x \in S : \A y \in S : y <= x

\* Timestamp.round(freq) for a positive freq: the nearest multiple of freq,
\* a tie going to the even quotient
Round(x, freq) ==
    LET q == x \div freq
        r == x % freq
    IN  IF 2 * r > freq \/ (2 * r = freq /\ q % 2 = 1)
        THEN (q + 1) * freq ELSE q * freq

\* data[lo:hi] on a sorted DatetimeIndex: the labels from lo to hi, both ends
\* included
Slice(index, lo, hi) == {x \in index : lo <= x /\ x <= hi}

\* reindex_with_interpolation, lines 17-22: the index of its value, the
\* multiples of freq from the first label rounded to the last label rounded;
\* a negative freq gives the start alone when both ends round to one label
\* (taken as rounded by -freq) and nothing otherwise
reindex_with_interpolation(index, freq) ==
    IF freq > 0
    THEN {x \in Round(Min(index), freq)..Round(Max(index), freq) :
            x % freq = 0}
    ELSE IF Round(Min(index), 0 - freq) = Round(Max(index), 0 - freq)
         THEN {Round(Min(index), 0 - freq)}
         ELSE {}

\* the series: indexes that are not empty
Indexes == SUBSET (0..MaxStamp) \ {{}}

StatInit ==
    /\ t_pc = "call"
    /\ t_in \in [a : Indexes, b : Indexes,
                 dtmin : -MaxDelay..MaxDelay, dtmax : -MaxDelay..MaxDelay,
                 freq : -1..MaxFreq,
                 starttime : {None, <<1>>}, endtime : {None, <<1>>}]
    /\ t_start = 0
    /\ t_end = 0
    /\ t_aa = {}
    /\ t_bb = {}
    /\ t_t = 0
    /\ t_stat = <<>>
    /\ t_n = 0

\* the variables of SpecStat in the specifications that do not use them
StatOff ==
    /\ t_pc = "off"
    /\ t_in = None
    /\ t_start = 0
    /\ t_end = 0
    /\ t_aa = {}
    /\ t_bb = {}
    /\ t_t = 0
    /\ t_stat = <<>>
    /\ t_n = 0

\* lines 51-64: the defaults of starttime and endtime, the rolling mean
\* (which keeps the index) and the cut of aa and bb
StatCut ==
    /\ t_pc = "call"
    /\ LET starttime == IF t_in.starttime # None THEN t_in.starttime[1]
                        ELSE Max({Min(t_in.a), Min(t_in.b)})
           endtime == IF t_in.endtime # None THEN t_in.endtime[1]
                      ELSE Min({Max(t_in.a), Max(t_in.b)})
       IN  /\ t_start' = starttime
           /\ t_end' = endtime
           /\ t_aa' = Slice(t_in.a, starttime + t_in.dtmin,
                            endtime + t_in.dtmax)
           /\ t_bb' = Slice(t_in.b, starttime - t_in.dtmax,
                            endtime - t_in.dtmin)
    /\ t_pc' = "cut"
    /\ UNCHANGED <<t_in, t_t, t_stat, t_n, varsNotStat>>

\* lines 17 and 66-67: data.index[0] of an empty cut raises IndexError, and
\* date_range with a freq of 0 raises
ReindexRaises == t_aa = {} \/ t_bb = {} \/ t_in.freq = 0

StatReindexRaise ==
    /\ t_pc = "cut"
    /\ ReindexRaises
    /\ t_pc' = "raise"
    /\ UNCHANGED <<t_in, t_start, t_end, t_aa, t_bb, t_t, t_stat, t_n,
                   varsNotStat>>

\* lines 66-70: aa and bb on the regular index, t = dtmin and the empty stat
StatReindex ==
    /\ t_pc = "cut"
    /\ ~ReindexRaises
    /\ t_aa' = reindex_with_interpolation(t_aa, t_in.freq)
    /\ t_bb' = reindex_with_interpolation(t_bb, t_in.freq)
    /\ t_t' = t_in.dtmin
    /\ t_stat' = <<>>
    /\ t_pc' = "loop"
    /\ UNCHANGED <<t_in, t_start, t_end, t_n, varsNotStat>>

\* stat.loc[t] = ...: the row of label t is set, a new label at the end
SetRow(stat, t) ==
    IF \E i \in 1..Len(stat) : stat[i] = t THEN stat ELSE Append(stat, t)

\* (a plausible slip of line 71: the loop left when t reaches dtmax)
BelowMax(t, dtmax) == t < dtmax

\* line 71: while t <= dtmax
LoopContinues(t, dtmax) == t <= dtmax

\* lines 71-74: one iteration of the loop; t += freq raises OverflowError
\* beyond the range of Timedelta
StatLoop ==
    /\ t_pc = "loop"
    /\ LoopContinues(t_t, t_in.dtmax)
    /\ t_stat' = SetRow(t_stat, t_t)
    /\ t_n' = t_n + 1
    /\ IF t_t + t_in.freq \in -TimedeltaMax..TimedeltaMax
       THEN t_t' = t_t + t_in.freq /\ t_pc' = "loop"
       ELSE t_t' = t_t /\ t_pc' = "raise"
    /\ UNCHANGED <<t_in, t_start, t_end, t_aa, t_bb, varsNotStat>>

\* lines 71 and 76: the loop is left and stat returned
StatReturn ==
    /\ t_pc = "loop"
    /\ ~LoopContinues(t_t, t_in.dtmax)
    /\ t_pc' = "ret"
    /\ UNCHANGED <<t_in, t_start, t_end, t_aa, t_bb, t_t, t_stat, t_n,
                   varsNotStat>>

StatNext ==
    StatCut \/ StatReindexRaise \/ StatReindex \/ StatLoop \/ StatReturn

-----------------------------------------------------------------------------
(* SpecDownload: one run of download_sensorcommunity                       *)
(* (aqstat/cli/commands/download.py).  The tasks of the nursery run one at *)
(* a time and are switched at their awaits only.                           *)

\* the lists parse_ids_from_string_or_dir gives (parse.py line 432: one id
\* per number of the string, a number given twice kept twice)
IdLists == UNION {[1..n -> 1..MaxIds] : n \in 1..MaxIds}

\* the lists of sensor types: the one the command passes, or a single type
TypeLists == {<<"sds011", "dht22", "bme280">>, <<"sds011">>}

\* lines 149-163: the urls, by day, then sensor id, then sensor type; a url
\* is kept as the parts its file name is formatted from
UrlList(days, ids, types) ==
    [n \in 1..(days * Len(ids) * Len(types)) |->
        LET per_day == Len(ids) * Len(types)
            r == (n - 1) % per_day
        IN  [date |-> (n - 1) \div per_day,
             sensor_id |-> ids[(r \div Len(types)) + 1],
             sensor_type |-> types[(r % Len(types)) + 1]]]

\* lines 20-24: outfile, <outputdir>/<sensor id>/<date>_<type>_sensor_<id>.csv
\* with the sensor id read back from the file name
Outfile(url) ==
    <<url.sensor_id, url.date, url.sensor_type, "sensor", url.sensor_id>>

\* a task: where it is, and the chunks it has written
Task(pc, written) == [pc |-> pc, written |-> written]

DlInit ==
    /\ w_pc = "call"
    /\ w_in \in {arg \in [sensor_ids : IdLists, days : 1..MaxDays,
                          sensor_types : TypeLists] :
                    Len(UrlList(arg.days, arg.sensor_ids, arg.sensor_types))
                        <= MaxTasks}
    /\ w_urllist = <<>>
    /\ w_tasks = <<>>

\* the variables of SpecDownload in the specifications that do not use them
DlOff ==
    /\ w_pc = "off"
    /\ w_in = None
    /\ w_urllist = <<>>
    /\ w_tasks = <<>>

\* lines 145-171: urllist is built and a task started for every url
DlStart ==
    /\ w_pc = "call"
    /\ w_urllist' = UrlList(w_in.days, w_in.sensor_ids, w_in.sensor_types)
    /\ w_tasks' = [k \in 1..Len(UrlList(w_in.days, w_in.sensor_ids,
                                        w_in.sensor_types)) |->
                      Task("start", 0)]
    /\ w_pc' = "nursery"
    /\ UNCHANGED <<w_in, varsNotDownload>>

\* lines 20-25: task k makes its directory and awaits session.get
DlRequest(k) ==
    /\ w_pc = "nursery"
    /\ w_tasks[k].pc = "start"
    /\ w_tasks' = [w_tasks EXCEPT ![k].pc = "get"]
    /\ UNCHANGED <<w_pc, w_in, w_urllist, varsNotDownload>>

\* lines 27-40: the status is not 200, or the file is there with the size
\* of the response: task k returns
DlSkip(k) ==
    /\ w_pc = "nursery"
    /\ w_tasks[k].pc = "get"
    /\ w_tasks' = [w_tasks EXCEPT ![k].pc = "done"]
    /\ UNCHANGED <<w_pc, w_in, w_urllist, varsNotDownload>>

\* lines 41-46: task k opens outfile with mode "wb"
DlOpen(k) ==
    /\ w_pc = "nursery"
    /\ w_tasks[k].pc = "get"
    /\ w_tasks' = [w_tasks EXCEPT ![k].pc = "open"]
    /\ UNCHANGED <<w_pc, w_in, w_urllist, varsNotDownload>>

\* lines 47-48: task k awaits the write of one more chunk
DlWrite(k) ==
    /\ w_pc = "nursery"
    /\ w_tasks[k].pc = "open"
    /\ w_tasks[k].written < MaxChunks
    /\ w_tasks' = [w_tasks EXCEPT ![k].written = @ + 1]
    /\ UNCHANGED <<w_pc, w_in, w_urllist, varsNotDownload>>

\* lines 46-49: the body is over, the file is closed and task k returns
DlClose(k) ==
    /\ w_pc = "nursery"
    /\ w_tasks[k].pc = "open"
    /\ w_tasks' = [w_tasks EXCEPT ![k].pc = "done"]
    /\ UNCHANGED <<w_pc, w_in, w_urllist, varsNotDownload>>

\* line 169: the nursery is left when every task has returned
DlEnd ==
    /\ w_pc = "nursery"
    /\ \A k \in 1..Len(w_tasks) : w_tasks[k].pc = "done"
    /\ w_pc' = "done"
    /\ UNCHANGED <<w_in, w_urllist, w_tasks, varsNotDownload>>

DlRequestAny == \E k \in 1..Len(w_tasks) : DlRequest(k)

DlSkipAny == \E k \in 1..Len(w_tasks) : DlSkip(k)

DlOpenAny == \E k \in 1..Len(w_tasks) : DlOpen(k)

DlWriteAny == \E k \in 1..Len(w_tasks) : DlWrite(k)

DlCloseAny == \E k \in 1..Len(w_tasks) : DlClose(k)

DlNext ==
    \/ DlStart
    \/ DlRequestAny
    \/ DlSkipAny
    \/ DlOpenAny
    \/ DlWriteAny
    \/ DlCloseAny
    \/ DlEnd

-----------------------------------------------------------------------------
(* The specifications *)

InitMeta ==
    /\ MetaInit
    /\ DataOff
    /\ SeqOff
    /\ ObjOff
    /\ DrvOff
    /\ ParseOff
    /\ FunOff
    /\ StatOff
    /\ DlOff

SpecMeta == InitMeta /\ [][MetaNext]_vars

InitData ==
    /\ DataInit
    /\ MetaOff
    /\ SeqOff
    /\ ObjOff
    /\ DrvOff
    /\ ParseOff
    /\ FunOff
    /\ StatOff
    /\ DlOff

SpecData == InitData /\ [][DataNext]_vars

InitSeq ==
    /\ SeqInit
    /\ MetaOff
    /\ DataOff
    /\ ObjOff
    /\ DrvOff
    /\ ParseOff
    /\ FunOff
    /\ StatOff
    /\ DlOff

SpecSeq == InitSeq /\ [][SeqNext]_vars

InitObj ==
    /\ ObjInit
    /\ MetaOff
    /\ DataOff
    /\ SeqOff
    /\ DrvOff
    /\ ParseOff
    /\ FunOff
    /\ StatOff
    /\ DlOff

SpecObj == InitObj /\ [][ObjNext]_vars

InitDriver ==
    /\ DrvInit
    /\ MetaOff
    /\ DataOff
    /\ SeqOff
    /\ ObjOff
    /\ ParseOff
    /\ FunOff
    /\ StatOff
    /\ DlOff

SpecDriver == InitDriver /\ [][DrvNext]_vars

\* the driver is not suspended: a step that can be taken is taken
SpecDriverLive == SpecDriver /\ WF_vars(DrvNext)

InitParse ==
    /\ ParseInit
    /\ MetaOff
    /\ DataOff
    /\ SeqOff
    /\ ObjOff
    /\ DrvOff
    /\ FunOff
    /\ StatOff
    /\ DlOff

SpecParse == InitParse /\ [][ParseNext]_vars

InitFun ==
    /\ FunInit
    /\ MetaOff
    /\ DataOff
    /\ SeqOff
    /\ ObjOff
    /\ DrvOff
    /\ ParseOff
    /\ StatOff
    /\ DlOff

SpecFun == InitFun /\ [][FunNext]_vars

InitStat ==
    /\ StatInit
    /\ MetaOff
    /\ DataOff
    /\ SeqOff
    /\ ObjOff
    /\ DrvOff
    /\ ParseOff
    /\ FunOff
    /\ DlOff

SpecStat == InitStat /\ [][StatNext]_vars

\* the call is not suspended: a step that can be taken is taken
SpecStatLive == SpecStat /\ WF_vars(StatNext)

InitDownload ==
    /\ DlInit
    /\ MetaOff
    /\ DataOff
    /\ SeqOff
    /\ ObjOff
    /\ DrvOff
    /\ ParseOff
    /\ FunOff
    /\ StatOff

SpecDownload == InitDownload /\ [][DlNext]_vars

-----------------------------------------------------------------------------
(* Claims about AQMetaData.merge, checked under SpecMeta *)

\* the metadata that results from the call: the receiver of an in-place
\* merge, the returned object otherwise
MetaResult == IF m_inplace THEN m_self ELSE m_ret[1]

\* C1: a device-id mismatch never raises: when self.chip_id and
\* other.chip_id are both non-null and unequal (0 included) the receiver's
\* merged flag is set and the merged id is self's id; when at most one id
\* is non-null the merged id is that id and no device-id conflict is flagged.
C1_DeviceIdRule ==
    m_pc = "ret" =>
        LET a == m_pre.chip_id
            b == m_other.chip_id
        IN  /\ (a # None /\ b # None /\ a # b) =>
                   (m_self.merged /\ MetaResult.chip_id = a)
            /\ (a = None \/ b = None) =>
                   /\ MetaResult.chip_id = (IF a # None THEN a ELSE b)
                   /\ ~ChipIdConflict(m_pre, m_other)

\* C2: whenever the merge detects a device-id or sensor-id conflict, the
\* metadata that results from the merge (the receiver when in place, the
\* returned object otherwise) has merged = True.
C2_ResultCarriesFlag ==
    (/\ m_pc = "ret"
     /\ \/ ChipIdConflict(m_pre, m_other)
        \/ \E key \in DOMAIN m_pre.sensors \cap DOMAIN m_other.sensors :
              SensorIdConflict(m_pre, m_other, key))
    => MetaResult.merged

\* C3: the merged sensors dict has exactly the union of the keys; a key only
\* in other takes other's descriptor, a key only in self keeps self's, a key
\* in both takes self's type when set else other's and self's sensor id when
\* set else other's, and a conflict is flagged when both sensor ids are
\* non-null and unequal.
C3_SensorMapRule ==
    m_pc = "ret" =>
        LET s == m_pre.sensors
            o == m_other.sensors
            r == MetaResult.sensors
        IN  /\ DOMAIN r = DOMAIN s \cup DOMAIN o
            /\ \A k \in DOMAIN o \ DOMAIN s : r[k] = o[k]
            /\ \A k \in DOMAIN s \ DOMAIN o : r[k] = s[k]
            /\ \A k \in DOMAIN s \cap DOMAIN o :
                  /\ r[k].name = k
                  /\ r[k].type = (IF s[k].type # "" THEN s[k].type
                                                   ELSE o[k].type)
                  /\ r[k].sensor_id = (IF s[k].sensor_id # None
                                       THEN s[k].sensor_id
                                       ELSE o[k].sensor_id)
                  /\ (/\ s[k].sensor_id # None
                      /\ o[k].sensor_id # None
                      /\ s[k].sensor_id # o[k].sensor_id) => m_self.merged

-----------------------------------------------------------------------------
(* Claims about the table part of AQData.merge, checked under SpecData *)

\* the consecutive timestamp difference before row i of the sorted union
Delta(i) == d_sorted[i].index - d_sorted[i - 1].index

\* the positions of the sorted union that are collapsed into output row g
GroupOf(g) == {i \in 1..Len(d_sorted) : d_diff[i] = g - 1}

\* C5: two consecutive rows of the time-sorted union are in the same group
\* exactly when their timestamp difference does not exceed tolerance (a
\* difference equal to tolerance is grouped), and a non-empty union yields 1
\* plus the number of differences strictly greater than tolerance rows.
C5_GroupingRule ==
    d_pc = "ret" =>
        /\ \A i \in 2..Len(d_sorted) :
              (d_diff[i] = d_diff[i - 1]) <=> (Delta(i) <= d_tol)
        /\ Len(d_sorted) > 0 =>
              Len(d_out) = 1 + Cardinality({i \in 2..Len(d_sorted) :
                                               Delta(i) > d_tol})

\* C5 witness: a chain of three rows, each within tolerance of its
\* predecessor and one at a difference equal to tolerance, spans more than
\* tolerance and is collapsed to one row.
C5_Witness ==
    /\ d_pc = "ret"
    /\ Len(d_sorted) = 3
    /\ Len(d_out) = 1
    /\ d_sorted[3].index - d_sorted[1].index > d_tol
    /\ \E i \in 2..3 : Delta(i) = d_tol

\* whether single-row tables a and b hold values in disjoint columns
DisjointValues(a, b) ==
    \A c \in Columns : a[1][c] = NaN \/ b[1][c] = NaN

\* C6: two single-row records whose timestamps differ by no more than
\* tolerance and whose non-missing columns are disjoint merge into exactly
\* one row holding every value of either input.
C6_NearDuplicateCollapse ==
    (/\ d_pc = "ret"
     /\ Len(d_self) = 1
     /\ Len(d_other) = 1
     /\ Abs(d_self[1].index - d_other[1].index) <= d_tol
     /\ DisjointValues(d_self, d_other))
    => /\ Len(d_out) = 1
       /\ \A c \in Columns :
             /\ d_self[1][c] # NaN => d_out[1][c] = d_self[1][c]
             /\ d_other[1][c] # NaN => d_out[1][c] = d_other[1][c]

\* C6 witness: a temperature row and a pm10 row a tolerance apart, the later
\* one in the receiver, have become one row holding both values.
C6_Witness ==
    /\ d_pc = "ret"
    /\ Len(d_self) = 1
    /\ Len(d_other) = 1
    /\ d_self[1].index - d_other[1].index = d_tol
    /\ d_tol > 0
    /\ d_self[1].temperature # NaN
    /\ d_self[1].pm10 = NaN
    /\ d_other[1].pm10 # NaN
    /\ d_other[1].temperature = NaN
    /\ Len(d_out) = 1
    /\ d_out[1].temperature = d_self[1].temperature
    /\ d_out[1].pm10 = d_other[1].pm10

\* C7: the collapsed row of a group holds, per column, a missing value only
\* if every row of the group is missing there, and otherwise the value of a
\* row of the group that is not missing there and that no row of the group
\* holding a value there precedes in time: of two different values the one
\* of the earlier timestamp is kept.
C7_FirstNonMissing ==
    d_pc = "ret" =>
        \A g \in 1..Len(d_out) : \A c \in Columns :
            LET have == {i \in GroupOf(g) : d_sorted[i][c] # NaN}
            IN  IF have = {} THEN d_out[g][c] = NaN
                ELSE \E i \in have :
                        /\ d_out[g][c] = d_sorted[i][c]
                        /\ \A j \in have :
                              d_sorted[i].index <= d_sorted[j].index

\* C7 witness: a group holds two different pm10 values at different
\* timestamps, the first row of the group is missing there, and the
\* collapsed row holds the earlier of the two values.
C7_Witness ==
    /\ d_pc = "ret"
    /\ \E g \in 1..Len(d_out) : \E i, j \in GroupOf(g) :
          /\ d_sorted[Min(GroupOf(g))].pm10 = NaN
          /\ d_sorted[i].pm10 # NaN
          /\ d_sorted[j].pm10 # NaN
          /\ d_sorted[i].pm10 # d_sorted[j].pm10
          /\ d_sorted[i].index < d_sorted[j].index
          /\ d_out[g].pm10 = d_sorted[i].pm10

-----------------------------------------------------------------------------
(* Claims about a record's table through its life, checked under SpecSeq *)

\* C4: in every state reached by constructing an AQData and applying any
\* sequence of merges (in place or not, any tolerance >= 0) and
\* calibrations, the timestamps of its table are non-decreasing in row order.
C4_SortedInvariant == IsSorted(s_data)

\* C4 witness: an in-place merge has added a row to a calibrated table: the
\* table holds three rows at increasing timestamps, a calibrated one and one
\* that is not.
C4_Witness ==
    /\ s_last = "merge"
    /\ Len(s_data) = 3
    /\ s_data[1].index < s_data[2].index
    /\ s_data[2].index < s_data[3].index
    /\ \E i \in 1..3 : s_data[i].pm2_5_calib # NaN
    /\ \E i \in 1..3 : s_data[i].pm2_5_calib = NaN

-----------------------------------------------------------------------------
(* Claims about AQData objects, checked under SpecObj *)

\* the metadata observed through the AQData object k, now and before the
\* latest call
MetaOf(k) == o_metas[o_objs[k].metadata]

PreMetaOf(k) == o_pre.metas[o_pre.objs[k].metadata]

\* C8: AQData.merge with inplace=True returns None and replaces the
\* receiver's table and metadata by the merged result; with inplace=False it
\* returns a new AQData and leaves the receiver's table and every field of
\* the receiver's metadata, the merged flag included, unchanged; in both
\* modes the other record's table and metadata are unchanged.
C8_MergeFrame ==
    o_last.op = "merge" =>
        LET i == o_last.self
            j == o_last.other
            merged == MergedFields(PreMetaOf(i), PreMetaOf(j))
            tables == MergedTables(o_pre.objs[i].data, o_pre.objs[j].data,
                                   o_last.tolerance)
        IN  /\ o_objs[j].data = o_pre.objs[j].data
            /\ MetaOf(j) = PreMetaOf(j)
               \/ o_pre.objs[j].metadata = o_pre.objs[i].metadata
            /\ IF o_last.inplace
               THEN /\ o_last.ret = 0
                    /\ Len(o_objs) = Len(o_pre.objs)
                    /\ o_objs[i].data \in tables
                    /\ [MetaOf(i) EXCEPT !.merged = FALSE]
                           = [merged EXCEPT !.merged = FALSE]
               ELSE /\ o_last.ret = Len(o_pre.objs) + 1
                    /\ Len(o_objs) = Len(o_pre.objs) + 1
                    /\ o_objs[o_last.ret].data \in tables
                    /\ o_objs[i].data = o_pre.objs[i].data
                    /\ MetaOf(i) = PreMetaOf(i)

\* C9: each AQData exclusively owns its metadata: two distinct AQData
\* objects obtained through the constructor (with or without a metadata
\* argument) or merge have distinct AQMetaData objects, so an in-place merge
\* or a chip_id or name assignment on one record never changes the metadata
\* observed through another record.
C9_ExclusiveMetadata ==
    /\ \A i, j \in 1..Len(o_objs) :
          i # j => o_objs[i].metadata # o_objs[j].metadata
    /\ (\/ o_last.op \in {"chip_id", "name"}
        \/ o_last.op = "merge" /\ o_last.inplace)
       => \A k \in 1..Len(o_objs) :
             k # o_last.self => MetaOf(k) = PreMetaOf(k)

-----------------------------------------------------------------------------
(* Claims about the driver, checked under SpecDriver *)

-----------------------------------------------------------------------------
(* Claims about parse_sensors_from_path, checked under SpecParse *)

\* the devices of a list, each known by the .json file that added it
Devices(sensors) == [i \in 1..Len(sensors) |-> sensors[i].first]

\* C11: every .json file is ingested, and the geographical filter applied,
\* before the first .csv file is examined: once the second loop is entered
\* no .json file is read, geo_center is settled, every listed device is
\* within the radius when a filter is given, and no step on a .csv file
\* adds a device to the list or removes one from it.
C11_MetadataBeforeData ==
    [][(c_pc = "csv" \/ c_seen.csv > 0) =>
          /\ c_seen'.json = c_seen.json
          /\ c_center' = c_center
          /\ Devices(c_sensors') = Devices(c_sensors)
          /\ c_center.kind = "latlon" =>
                \A i \in 1..Len(c_sensors) :
                    WithinRadius(c_center, c_sensors[i].metadata.location)
          /\ c_seen'.csv > 0 => c_chip_ids' = c_chip_ids]_vars

\* C11 witness: two .json files gave two devices, the geographical filter
\* dropped the first, and a .csv file has been examined against the list
\* of the one device left.
C11_Witness ==
    /\ c_pc = "csv"
    /\ c_seen = [json |-> 2, csv |-> 1]
    /\ c_opts.chip_ids = {} /\ c_opts.names = {} /\ c_opts.exclude_names = {}
    /\ c_center.kind = "latlon"
    /\ Devices(c_sensors) = <<2>>
    /\ c_last.kind = "csv"
    /\ c_last.file.scheme = "B"
    /\ c_last.outcome = "skipped"

\* the tables of the devices of a list
Tables(sensors) == [i \in 1..Len(sensors) |-> sensors[i].data]

\* C12: a .csv file whose name yields only a sensor id (and whose date is
\* within the limits) has its rows merged into exactly one device, the
\* first listed device that has the sensor id on any of its channels, and
\* into no other; if no listed device has the sensor id the file is dropped
\* without an exception and changes no device's table.
C12_SensorIdResolution ==
    (/\ c_last.kind = "csv"
     /\ c_last.file.scheme = "B"
     /\ c_last.file.date = "in")
    => LET holders == {i \in 1..Len(c_pre) :
                          c_last.file.sensor_id
                              \in sensor_ids(c_pre[i].metadata)}
       IN  /\ c_pc # "raised"
           /\ Devices(c_sensors) = Devices(c_pre)
           /\ IF holders = {}
              THEN Tables(c_sensors) = Tables(c_pre)
              ELSE /\ c_last.outcome = "merged"
                   /\ c_last.target = Min(holders)
                   /\ c_sensors[Min(holders)].data
                          \in MergedTables(c_pre[Min(holders)].data, CsvRows,
                                           DefaultTolerance)
                   /\ \A i \in 1..Len(c_pre) :
                          i # Min(holders) =>
                              c_sensors[i].data = c_pre[i].data

\* C13: a .csv file whose name matches neither filename scheme is skipped
\* and is never fatal: whatever the listed devices are, devices of chip id
\* None included, no exception is raised because of the file and no
\* device is changed by it.
C13_UnparsableNameSkipped ==
    (c_last.kind = "csv" /\ c_last.file.scheme = "")
    => /\ c_pc # "raised"
       /\ c_last.outcome = "skipped"
       /\ c_sensors = c_pre

\* whether the devices of a list stand in the order in which the .json
\* files first gave them
InFirstOrder(sensors) ==
    \A i, j \in 1..Len(sensors) :
        i < j => sensors[i].first < sensors[j].first

\* C14: with only_metadata false, parse_sensors_from_path returns the
\* collected devices in the order in which the metadata pass first met
\* them, and returns a device that passed the filters exactly if its final
\* table is not empty: a device known from metadata only, with no row, is
\* left out and no exception is raised for it.
C14_ReturnedDevices ==
    /\ InFirstOrder(c_sensors)
    /\ (c_pc = "done" /\ ~c_opts.only_metadata) =>
          LET ret == c_ret[1]
          IN  /\ InFirstOrder(ret)
              /\ \A r \in 1..Len(ret) :
                    \E k \in 1..Len(c_sensors) : ret[r] = c_sensors[k]
              /\ \A k \in 1..Len(c_sensors) :
                    (\E r \in 1..Len(ret) : ret[r] = c_sensors[k])
                        <=> c_sensors[k].data # EmptyFrame

\* C14 witness: two devices were collected from metadata, a .csv file was
\* examined and gave neither of them a row, and the function has returned a
\* list without them.
C14_Witness ==
    /\ c_pc = "done"
    /\ ~c_opts.only_metadata
    /\ Devices(c_sensors) = <<1, 2>>
    /\ c_seen.csv > 0
    /\ \A k \in 1..2 : c_sensors[k].data = EmptyFrame
    /\ c_ret = <<EmptyFrame>>

-----------------------------------------------------------------------------
(* Algebraic claims about AQMetaData.merge, checked under SpecMeta *)

\* C15: the metadata merge is idempotent: for every metadata a whose merged
\* flag is not set, merge(a, a) yields metadata equal to a in name, chip id,
\* sensors, description, location and owner, and sets the merged flag
\* neither on a nor on the result.
C15_MergeIdempotent ==
    (m_pc = "ret" /\ m_other = m_pre /\ ~m_pre.merged)
    => /\ MetaResult = m_pre
       /\ m_self = m_pre

\* C15 witness: a metadata with chip id 0 and a pm10 sensor of id 0 and of
\* no type has been merged with itself in place.
C15_Witness ==
    /\ m_pc = "ret"
    /\ m_inplace
    /\ m_other = m_pre
    /\ ~m_pre.merged
    /\ m_pre.chip_id = <<0>>
    /\ "pm10" \in DOMAIN m_pre.sensors
    /\ m_pre.sensors["pm10"].sensor_id = <<0>>
    /\ m_pre.sensors["pm10"].type = ""
    /\ m_self = m_pre

\* whether a location component is set: neither the empty shell nor null
IsSetComponent(x) == x \notin {"", "None"}

\* whether at most one of the metadata a and b has each field set
DisjointFields(a, b) ==
    /\ a.name = "" \/ b.name = ""
    /\ a.chip_id = None \/ b.chip_id = None
    /\ a.description = "" \/ b.description = ""
    /\ \A f \in {"lat", "lon", "amsl", "agl"} :
          ~IsSetComponent(a.location[f]) \/ ~IsSetComponent(b.location[f])
    /\ \A f \in {"name", "email", "phone"} :
          a.owner[f] = "" \/ b.owner[f] = ""
    /\ \A key \in DOMAIN a.sensors \cap DOMAIN b.sensors :
          /\ a.sensors[key].type = "" \/ b.sensors[key].type = ""
          /\ a.sensors[key].sensor_id = None \/ b.sensors[key].sensor_id = None

\* C16: for two metadata whose set fields are disjoint (of each of name,
\* chip id, description, location component, owner component and channel
\* type and sensor id at most one has it set, the other holding the empty
\* shell or null), merge(a, b) and merge(b, a) yield the same value for
\* every field.
C16_MergeCommutes ==
    (m_pc = "ret" /\ DisjointFields(m_pre, m_other))
    => [MetaResult EXCEPT !.merged = FALSE] = MergedFields(m_other, m_pre)

-----------------------------------------------------------------------------
(* Claims about functions, checked under SpecFun *)

\* C17: serializing an AQMetaData with as_dict and JSON and reloading it
\* with from_json gives an object equal field for field: name, chip_id,
\* every sensor descriptor, description, location and owner have the same
\* values and the same shape as in the original.
C17_JsonRoundTrip ==
    (f_pc = "ret" /\ f_name = "json") => f_out = f_in

-----------------------------------------------------------------------------
(* More claims about AQMetaData.merge, checked under SpecMeta *)

\* C18: the merge resolves each of the four location components (lat, lon,
\* amsl, agl) on its own: the merged component is self's value unless
\* self's value is null or NaN, and other's value in that case.
C18_LocationRule ==
    m_pc = "ret" =>
        \A f \in {"lat", "lon", "amsl", "agl"} :
            MetaResult.location[f] =
                IF m_pre.location[f] \in {"None", "nan"}
                THEN m_other.location[f]
                ELSE m_pre.location[f]

-----------------------------------------------------------------------------
(* More claims about the table part of AQData.merge, under SpecData *)

\* C19 as stated: merging with a record whose table is empty is a no-op
\* union: for every receiver table the merged table equals the receiver's.
C19_EmptyOtherNoOp ==
    (d_pc = "ret" /\ d_other = EmptyFrame) => d_out = d_self

\* C19: merging with a record whose table is empty leaves a receiver table
\* whose consecutive timestamps differ by more than tolerance as it is (same
\* rows, timestamps and values); rows of the receiver within tolerance of
\* each other are collapsed as in any merge.
C19_EmptyOtherNoOpSpaced ==
    (/\ d_pc = "ret"
     /\ d_other = EmptyFrame
     /\ \A i \in 2..Len(d_self) :
           d_self[i].index - d_self[i - 1].index > d_tol)
    => d_out = d_self

\* C19 witness: a receiver of two rows two seconds apart has been merged
\* with an empty table at a tolerance of one second and is unchanged.
C19_Witness ==
    /\ d_pc = "ret"
    /\ d_other = EmptyFrame
    /\ d_tol = 1
    /\ Len(d_self) = 2
    /\ d_self[2].index - d_self[1].index = 2
    /\ d_out = d_self

-----------------------------------------------------------------------------
(* Claims about AQData.calibrate, checked under SpecFun *)

\* C20: after calibrate, the pm2_5_calib of a row is missing whenever its
\* pm10 is more than 8 times its pm2_5 (a ratio strictly greater than 8,
\* infinity included), whatever the formula gave, and the pm2_5_calib of a
\* row whose pm10 is exactly 8 times a pm2_5 that is not 0 is the value of
\* the formula, not discarded.
C20_RangeGate ==
    (f_pc = "ret" /\ f_name = "calibrate") =>
        \A i \in 1..Len(f_in) :
            (f_in[i].pm10 # NaN /\ f_in[i].pm2_5 # NaN) =>
                LET a == f_in[i].pm10[1]
                    b == f_in[i].pm2_5[1]
                IN  /\ a > 8 * b => f_out[i].pm2_5_calib = NaN
                    /\ (a = 8 * b /\ b > 0) =>
                          f_out[i].pm2_5_calib = <<b, 8, 1>>

\* C20 witness: a table with a row of pm10 16 and pm2_5 2 (ratio 8) and a
\* row of pm10 17 and pm2_5 2 (ratio 8.5) has been calibrated; the first
\* row has its calibrated value and the second has none.
C20_Witness ==
    /\ f_pc = "ret"
    /\ f_name = "calibrate"
    /\ Len(f_in) = 2
    /\ f_in[1].pm10 = <<16>> /\ f_in[1].pm2_5 = <<2>>
    /\ f_in[2].pm10 = <<17>> /\ f_in[2].pm2_5 = <<2>>
    /\ f_out[1].pm2_5_calib # NaN
    /\ f_out[2].pm2_5_calib = NaN

\* C21: calibrate is idempotent by overwrite: after two or more calls in a
\* row the table is the table after one call, with the rows, the timestamps
\* and the raw columns of the table given.
C21_CalibrateIdempotent ==
    (f_pc = "again" /\ f_name = "calibrate") =>
        /\ f_out = calibrate(f_in)
        /\ Len(f_out) = Len(f_in)
        /\ \A i \in 1..Len(f_in) :
              \A c \in {"index"} \cup DataColumns : f_out[i][c] = f_in[i][c]

\* C21 witness: a table with a row in range (pm10 3, pm2_5 2) and a row
\* out of range (pm10 17, pm2_5 1) has been calibrated more than once; the
\* first row has its ratio and calibrated value, the second its ratio only.
C21_Witness ==
    /\ f_pc = "again"
    /\ f_name = "calibrate"
    /\ Len(f_in) = 2
    /\ f_in[1].pm10 = <<3>> /\ f_in[1].pm2_5 = <<2>>
    /\ f_in[2].pm10 = <<17>> /\ f_in[2].pm2_5 = <<1>>
    /\ f_out[1].pm10_per_pm2_5 = <<3, 2>>
    /\ f_out[1].pm2_5_calib = <<2, 3, 2>>
    /\ f_out[2].pm10_per_pm2_5 = <<17, 1>>
    /\ f_out[2].pm2_5_calib = NaN

-----------------------------------------------------------------------------
(* Claims about time_delay_correlation, checked under SpecStat *)

\* the call returned its table, having been given dtmin <= dtmax and a
\* positive freq
ReturnedInOrder ==
    /\ t_pc = "ret"
    /\ t_in.dtmin <= t_in.dtmax
    /\ t_in.freq > 0

\* the rows of stat start at dtmin and step by freq
StepsFromDtmin ==
    /\ Len(t_stat) >= 1
    /\ t_stat[1] = t_in.dtmin
    /\ \A i \in 2..Len(t_stat) : t_stat[i] - t_stat[i - 1] = t_in.freq

\* C22 as stated: for every dtmin <= dtmax and freq > 0 the returned table
\* has one row per delay, the first at dtmin, consecutive rows freq apart
\* and the last at dtmax.
C22_DelayRows ==
    ReturnedInOrder =>
        /\ StepsFromDtmin
        /\ t_stat[Len(t_stat)] = t_in.dtmax

\* C22: for every dtmin <= dtmax and freq > 0 the returned table has one
\* row per delay, the first at dtmin, consecutive rows freq apart and the
\* last at the largest delay dtmin + k * freq that is not above dtmax, which
\* is dtmax when freq divides dtmax - dtmin.
C22_DelayRowsUpTo ==
    ReturnedInOrder =>
        /\ StepsFromDtmin
        /\ t_stat[Len(t_stat)] <= t_in.dtmax
        /\ t_stat[Len(t_stat)] + t_in.freq > t_in.dtmax
        /\ (t_in.dtmax - t_in.dtmin) % t_in.freq = 0
              => t_stat[Len(t_stat)] = t_in.dtmax

\* C22 witness: a call with dtmin -1, dtmax 1 and freq 1 returned the rows
\* -1, 0, 1.
C22_Witness ==
    /\ t_pc = "ret"
    /\ t_in.dtmin = -1 /\ t_in.dtmax = 1 /\ t_in.freq = 1
    /\ t_stat = <<-1, 0, 1>>

\* the retained part of a, after the cut, has every timestamp of a in
\* [starttime, endtime]
CoversA ==
    \A x \in t_in.a : (t_start <= x /\ x <= t_end) => x \in t_aa

\* the retained part of b has every timestamp of b in
\* [starttime - t, endtime - t], for every delay t in [dtmin, dtmax]
CoversB ==
    \A t \in t_in.dtmin..t_in.dtmax :
        \A x \in t_in.b : (t_start - t <= x /\ x <= t_end - t) => x \in t_bb

\* C23: for every dtmin <= dtmax, the cut leaves slack for every shift: the
\* retained part of a covers the timestamps of a in [starttime, endtime] and
\* the retained part of b those of b in [starttime - t, endtime - t] for
\* every delay t in [dtmin, dtmax].
C23_CutCovers ==
    (t_pc = "cut" /\ t_in.dtmin <= t_in.dtmax) => (CoversA /\ CoversB)

-----------------------------------------------------------------------------
(* Claims about parse_metadata_from_filename, checked under SpecFun *)

\* C24: parse_metadata_from_filename returns without raising for every
\* filename: a Scheme A name yields its device id and no sensor id or type,
\* a Scheme B name yields its sensor id, sensor type and date and no device
\* id, and a name of neither grammar yields null for all four fields.
C24_FilenameParsed ==
    (f_pc \in {"ret", "raise"} /\ f_name = "filename") =>
        /\ f_pc = "ret"
        /\ f_in.scheme = "A" =>
              /\ f_out.chip_id = f_in.chip_id
              /\ f_out.sensor_id = None /\ f_out.sensor_type = ""
              /\ f_out.date = f_in.date
        /\ f_in.scheme = "B" =>
              /\ f_out.chip_id = None
              /\ f_out.sensor_id = f_in.sensor_id
              /\ f_out.sensor_type = f_in.sensor_type
              /\ f_out.date = f_in.date
        /\ f_in.scheme = "" =>
              /\ f_out.chip_id = None /\ f_out.sensor_id = None
              /\ f_out.sensor_type = "" /\ f_out.date = ""

-----------------------------------------------------------------------------
(* Claims about merge_sensors_with_shared_name, checked under            *)
(* SpecDriverLive                                                          *)

\* the positions of the given list with the name of position k
SameName(k) ==
    {g \in 1..Len(p_input) :
        p_input[g].metadata.name = p_input[k].metadata.name}

\* the tables a list of tables merges into, from the left, at the default
\* tolerance
RECURSIVE MergeAll(_)
MergeAll(tables) ==
    IF Len(tables) = 1 THEN {tables[1]}
    ELSE UNION {MergedTables(d, tables[Len(tables)], DefaultTolerance) :
                  d \in MergeAll(SubSeq(tables, 1, Len(tables) - 1))}

\* the positions of a set, in increasing order
RECURSIVE InOrder(_)
InOrder(S) == IF S = {} THEN <<>> ELSE <<Min(S)>> \o InOrder(S \ {Min(S)})

\* the calibrated tables of the given sensors at the positions of S
TablesOf(S) ==
    [i \in 1..Cardinality(S) |-> calibrate(p_input[InOrder(S)[i]].data)]

\* the returned list is the given sensors at the positions of `kept`, in
\* the order given, each holding the merge of the sensors `group` gives it
ReturnedAre(kept, group(_)) ==
    /\ Len(p_sensors) = Cardinality(kept)
    /\ \A i \in 1..Len(p_sensors) :
          LET k == InOrder(kept)[i]
          IN  /\ p_sensors[i].metadata.chip_id = p_input[k].metadata.chip_id
              /\ p_sensors[i].metadata.name = p_input[k].metadata.name
              /\ p_sensors[i].data \in MergeAll(TablesOf(group(k)))

Unnamed(k) == p_input[k].metadata.name = ""

\* the sensors merged into the one at position k: those of its name, or
\* itself alone when it has no name
MergedInto(k) == IF Unnamed(k) THEN {k} ELSE SameName(k)

-----------------------------------------------------------------------------
(* Claims about the timestamps AQData.merge leaves, under SpecData *)

\* C26: after a merge with tolerance T >= 0 every two consecutive rows of
\* the resulting table have timestamps more than T apart (so no timestamp
\* occurs twice), and the timestamp of each row is the earliest timestamp of
\* the rows collapsed into it.
C26_RowsApart ==
    d_pc = "ret" =>
        /\ \A g \in 2..Len(d_out) :
              d_out[g].index - d_out[g - 1].index > d_tol
        /\ \A g \in 1..Len(d_out) :
              d_out[g].index = Min({d_sorted[i].index : i \in GroupOf(g)})

\* C26 witness: rows at the timestamps 0, 0 and 1 have been merged at
\* tolerance 0 into a row at 0 and a row at 1.
C26_Witness ==
    /\ d_pc = "ret"
    /\ d_tol = 0
    /\ Len(d_sorted) = 3
    /\ d_sorted[1].index = 0 /\ d_sorted[2].index = 0
    /\ d_sorted[3].index = 1
    /\ Len(d_out) = 2
    /\ d_out[1].index = 0 /\ d_out[2].index = 1

-----------------------------------------------------------------------------
(* Claims about the devices parse_sensors_from_path collects, checked      *)
(* under SpecParse                                                         *)

\* the positions of a list whose device has the chip id
WithChipId(sensors, chip_id) ==
    {i \in 1..Len(sensors) : sensors[i].metadata.chip_id = chip_id}

\* C27: at every point of parse_sensors_from_path no two collected devices
\* have the same chip id unless it is None, and a metadata file that is not
\* skipped and whose chip id is that of a collected device is merged in
\* place into that device, no device being added.
C27_UniqueChipIds ==
    /\ \A i, j \in 1..Len(c_sensors) :
          (i # j /\ c_sensors[i].metadata.chip_id # None) =>
              c_sensors[i].metadata.chip_id # c_sensors[j].metadata.chip_id
    /\ (/\ c_last.kind = "json"
        /\ c_last.outcome # "skipped"
        /\ c_last.file.chip_id # None
        /\ WithChipId(c_pre, c_last.file.chip_id) # {}) =>
           /\ c_last.outcome = "merged"
           /\ c_last.target \in WithChipId(c_pre, c_last.file.chip_id)
           /\ Len(c_sensors) = Len(c_pre)
           /\ c_sensors[c_last.target].metadata.chip_id
                 = c_last.file.chip_id

\* C27 witness: a second metadata file with chip id 1 and other sensors has
\* been merged into the one device with chip id 1, which has the sensors of
\* both files.
C27_Witness ==
    /\ c_last.kind = "json"
    /\ c_last.outcome = "merged"
    /\ c_last.file.chip_id = <<1>>
    /\ Len(c_pre) = 1
    /\ Len(c_sensors) = 1
    /\ c_sensors[1].metadata.chip_id = <<1>>
    /\ c_sensors[1].metadata.sensors # c_pre[1].metadata.sensors

-----------------------------------------------------------------------------
(* Claims about the merged flag, checked under SpecMeta *)

\* C28: the merged flag of an AQMetaData object is monotone: the object a
\* merge makes has it False, and a merge (in place or not, with a conflict
\* or without) on a receiver that had it True leaves it True, so that no
\* sequence of merges sets it back to False.
C28_MergedMonotone ==
    m_pc = "ret" =>
        /\ m_pre.merged => m_self.merged
        /\ m_ret # None => ~m_ret[1].merged

\* C28 witness: a receiver flagged by an earlier merge has been merged in
\* place with an object it has no conflict with, and is still flagged.
C28_Witness ==
    /\ m_pc = "ret"
    /\ m_inplace
    /\ m_pre.merged
    /\ ~ConflictFlag(m_pre, m_other)
    /\ m_other # m_pre
    /\ m_self.merged

-----------------------------------------------------------------------------
(* Claims about the loop of time_delay_correlation, checked under          *)
(* SpecStatLive                                                            *)

\* floor(a / b) for b # 0
FloorDiv(a, b) == IF b > 0 THEN a \div b ELSE (0 - a) \div (0 - b)

\* the call is over, the loop having been reached
LoopOver == t_pc = "ret" \/ (t_pc = "raise" /\ t_n > 0)

\* C29: the delay-scan loop terminates for all dtmin, dtmax and freq, after
\* floor((dtmax - dtmin) / freq) + 1 iterations when dtmin <= dtmax and
\* after none when dtmin > dtmax.
C29_LoopTerminates ==
    /\ <>(t_pc \in {"ret", "raise"})
    /\ [](LoopOver =>
            t_n = IF t_in.dtmin <= t_in.dtmax
                  THEN FloorDiv(t_in.dtmax - t_in.dtmin, t_in.freq) + 1
                  ELSE 0)

-----------------------------------------------------------------------------
(* Claims about download_sensorcommunity, checked under SpecDownload *)

\* C30: within one run of download_sensorcommunity, for every list of
\* sensor ids (ids given more than once included) and every date range, no
\* two download tasks have the same output file open for writing at a time.
C30_NoSharedOutfile ==
    \A k, l \in 1..Len(w_tasks) :
        (k # l /\ w_tasks[k].pc = "open" /\ w_tasks[l].pc = "open") =>
            Outfile(w_urllist[k]) # Outfile(w_urllist[l])

====
